---- MODULE Spec2Model ----
(***************************************************************************)
(* Model of the zs-retriever backend: the idempotent ingestion             *)
(* orchestrator (services/ingestion/orchestrator.py), the reference vector *)
(* store (services/providers/vector_store_default.py) and the callers that *)
(* run them concurrently.                                                  *)
(*                                                                         *)
(* Strings are sequences of one-character strings, so that the store key   *)
(* f"{project_id}:{index_version}:{chunk_id}" and str.startswith are       *)
(* computed as the code computes them.                                     *)
(***************************************************************************)
EXTENDS Integers, Sequences, FiniteSets, TLC

(***************************************************************************)
(* Bounds of the model.                                                    *)
(***************************************************************************)
\* total number of ingest_file calls explored in one behaviour
MaxCalls == 2
\* number of upsert calls explored on one adapter in the vector store specification
MaxUpserts == 2

\* ThreadPoolExecutor(max_workers=2): ingest_file runs on at most two workers at once
MaxWorkers == 2

None == "None"

(***************************************************************************)
(* Strings.                                                                *)
(***************************************************************************)
Colon == <<":">>

StartsWith(s, prefix) ==
    /\ Len(s) >= Len(prefix)
    /\ SubSeq(s, 1, Len(prefix)) = prefix

(***************************************************************************)
(* Cosine similarity.  A similarity is kept exactly, as the pair (d, n)    *)
(* standing for d / sqrt(n): d is the dot product and n the product of the *)
(* squared norms.  A zero norm is replaced by 1e-10 in the code; the dot   *)
(* product is then 0 and so is the similarity.                             *)
(***************************************************************************)
MinNat(a, b) == IF a <= b THEN a ELSE b

RECURSIVE DotUpTo(_, _, _)
DotUpTo(a, b, k) == IF k = 0 THEN 0 ELSE DotUpTo(a, b, k - 1) + a[k] * b[k]

\* sum(x * y for x, y in zip(a, b)): zip stops at the shorter vector
Dot(a, b) == DotUpTo(a, b, MinNat(Len(a), Len(b)))

NormSq(a) == DotUpTo(a, a, Len(a))

_cosine_similarity(a, b) ==
    LET d == Dot(a, b)
        n == NormSq(a) * NormSq(b)
    IN  IF d = 0 \/ n = 0 THEN [d |-> 0, n |-> 1] ELSE [d |-> d, n |-> n]

Sgn(x) == IF x > 0 THEN 1 ELSE IF x < 0 THEN -1 ELSE 0

\* s1 > s2 for s = d / sqrt(n), n > 0
SimGT(s1, s2) == Sgn(s1.d) * s1.d * s1.d * s2.n > Sgn(s2.d) * s2.d * s2.d * s1.n

SimGE(s1, s2) == ~SimGT(s2, s1)

\* the similarity is exactly 1
SimIsOne(s) == s.d > 0 /\ s.d * s.d = s.n

(***************************************************************************)
(* DefaultVectorStoreAdapter.  self._store is a Python dict: a sequence of *)
(* entries [key, rec] with distinct keys, in insertion order.              *)
(***************************************************************************)
_key(chunk_id, project_id, index_version) ==
    project_id \o Colon \o index_version \o Colon \o chunk_id

KeyIndex(store, k) ==
    IF \E i \in 1..Len(store) : store[i].key = k
    THEN CHOOSE i \in 1..Len(store) : store[i].key = k
    ELSE 0

\* self._store[key] = value
DictSet(store, k, value) ==
    LET i == KeyIndex(store, k)
    IN  IF i = 0
        THEN Append(store, [key |-> k, rec |-> value])
        ELSE [store EXCEPT ![i] = [key |-> k, rec |-> value]]

\* the dict stored for one VectorRecord (is_deleted is not stored)
StoredRec(r) ==
    [chunk_id |-> r.chunk_id, vector |-> r.vector, project_id |-> r.project_id,
     file_id |-> r.file_id, parent_id |-> r.parent_id, chunk_type |-> r.chunk_type,
     chunk_text |-> r.chunk_text, loc |-> r.loc, index_version |-> r.index_version,
     doc_hash |-> r.doc_hash]

RECURSIVE UpsertFrom(_, _, _)
UpsertFrom(store, records, i) ==
    IF i > Len(records) THEN store
    ELSE LET r == records[i]
         IN  IF r.is_deleted
             THEN UpsertFrom(store, records, i + 1)
             ELSE UpsertFrom(DictSet(store, _key(r.chunk_id, r.project_id, r.index_version),
                                     StoredRec(r)),
                             records, i + 1)

\* the in-memory effect of upsert(records); _save follows it
upsert(store, records) == UpsertFrom(store, records, 1)

\* rec.get(fk)
RecGet(rec, fk) == IF fk \in DOMAIN rec THEN rec[fk] ELSE None

\* filters is a dict, given as the sequence of its (key, value) items; None and {}
\* are both the empty sequence ("if filters:" treats them alike)
PassesFilters(rec, filters) ==
    \A i \in 1..Len(filters) : RecGet(rec, filters[i][1]) = filters[i][2]

SearchPrefix(project_id, index_version) ==
    project_id \o Colon \o index_version \o Colon

\* the loop of search: the entries that reach candidates.append
IsCandidate(e, project_id, index_version, filters) ==
    /\ StartsWith(e.key, SearchPrefix(project_id, index_version))
    /\ PassesFilters(e.rec, filters)

\* a sort by ascending similarity
InsertBySimAscending(sorted, c) ==
    LET before == {j \in 1..Len(sorted) : SimGE(c.sim, sorted[j].sim)}
        k == Cardinality(before)
    IN  SubSeq(sorted, 1, k) \o <<c>> \o SubSeq(sorted, k + 1, Len(sorted))

\* candidates.sort(key=lambda x: -x[0]) is stable: an element goes after all
\* elements whose similarity is >= its own
InsertBySim(sorted, c) ==
    LET before == {j \in 1..Len(sorted) : SimGE(sorted[j].sim, c.sim)}
        k == Cardinality(before)
    IN  SubSeq(sorted, 1, k) \o <<c>> \o SubSeq(sorted, k + 1, Len(sorted))

RECURSIVE SortedCandidates(_, _, _, _, _, _)
SortedCandidates(store, vector, project_id, index_version, filters, n) ==
    IF n = 0 THEN <<>>
    ELSE LET rest == SortedCandidates(store, vector, project_id, index_version, filters, n - 1)
             e == store[n]
         IN  IF IsCandidate(e, project_id, index_version, filters)
             THEN InsertBySim(rest, [sim |-> _cosine_similarity(vector, e.rec.vector),
                                     rec |-> e.rec])
             ELSE rest

\* candidates[:top_k]
SliceTo(s, top_k) ==
    IF top_k >= 0
    THEN SubSeq(s, 1, MinNat(top_k, Len(s)))
    ELSE SubSeq(s, 1, IF Len(s) + top_k > 0 THEN Len(s) + top_k ELSE 0)

SearchHit(c) ==
    [chunk_id |-> c.rec.chunk_id, score |-> c.sim, project_id |-> c.rec.project_id,
     file_id |-> c.rec.file_id, parent_id |-> c.rec.parent_id,
     chunk_type |-> c.rec.chunk_type, chunk_text |-> c.rec.chunk_text,
     loc |-> c.rec.loc, index_version |-> c.rec.index_version,
     doc_hash |-> c.rec.doc_hash]

search(store, vector, top_k, project_id, index_version, filters) ==
    LET cands == SortedCandidates(store, vector, project_id, index_version, filters,
                                  Len(store))
        top == SliceTo(cands, top_k)
    IN  [i \in 1..Len(top) |-> SearchHit(top[i])]

(***************************************************************************)
(* State.                                                                  *)
(***************************************************************************)
VARIABLES
    vsStore,    \* DefaultVectorStoreAdapter._store of the adapter under test
    vsLast,     \* the last call made on that adapter, with its arguments and result
    vsCalls,    \* number of upsert calls made on that adapter
    disk,       \* data/vectors/vectors.json
    ilog,       \* table ingestion_log (committed rows)
    dbProjects, \* table projects (committed rows)
    dbFiles,    \* table files (committed rows)
    dbParents,  \* table parents (committed rows)
    dbChunks,   \* table chunks (committed rows)
    run,        \* the ingest_file call each worker thread is executing
    nCalls,     \* number of ingest_file calls started so far
    srch,       \* a search running beside the ingestions: its adapter and its hits
    committed,  \* history: the records of the last snapshot written in full
    succeeded,  \* history: the keys of the calls that returned success
    chunking,   \* a build_children call of a chunking policy, or the document
                \* pipeline of ingest_file: its input and result
    jobs        \* table jobs, projects.active_index_version and the job threads

vsVars == <<vsStore, vsLast, vsCalls>>

dbVars == <<ilog, dbProjects, dbFiles, dbParents, dbChunks>>

ingVars == <<dbVars, run, nCalls, srch, committed, succeeded, chunking, jobs>>

vars == <<vsVars, disk, ingVars>>

(***************************************************************************)
(* _save and _load.  The file is absent, complete (a JSON document holding *)
(* the records) or partial: open(.., "w") has truncated it and the text is *)
(* not written in full yet, which json.loads rejects.                      *)
(***************************************************************************)
NoFile == [state |-> "absent", records |-> <<>>]

\* f.write_text(json.dumps({"records": self._store})) once it has completed
SavedFile(store) == [state |-> "complete", records |-> store]

\* the file between the truncation by open(.., "w") and the end of the write
TruncatedFile == [state |-> "partial", records |-> <<>>]

\* _load: the records of a complete file; {} for no file or a JSONDecodeError
_load(file) == IF file.state = "complete" THEN file.records ELSE <<>>

(***************************************************************************)
(* ingest_file.  The calls run on the worker threads of the job runner;    *)
(* each step below is one access to the database, the snapshot file or a   *)
(* capability, in the order of the code.                                   *)
(***************************************************************************)
Workers == 1..MaxWorkers

\* hashlib.sha256(file_bytes).hexdigest(), taken as injective
sha256(file_bytes) == IF file_bytes = "d1" THEN "h1" ELSE "h2"

\* the (project_id, file_bytes, index_version) of the calls explored
IngArgs ==
    { [project_id |-> <<"p">>, file_bytes |-> "d1", index_version |-> <<"v">>],
      [project_id |-> <<"p">>, file_bytes |-> "d2", index_version |-> <<"v">>],
      [project_id |-> <<"p">>, file_bytes |-> "d1", index_version |-> <<"w">>],
      [project_id |-> <<"q">>, file_bytes |-> "d1", index_version |-> <<"v">>] }

\* str(uuid.uuid4()): the k-th id drawn by the n-th call
Uuid(n, k) == <<"u", ToString(n), ToString(k)>>

\* the embedding_text of the chunks that parsing and chunking make of a document
DocChunkTexts(file_bytes) == IF file_bytes = "d1" THEN <<"t1">> ELSE <<"t2", "t3">>

\* embedder.embed(texts), one vector per text
EmbedVec(text) ==
    IF text = "t1" THEN <<1, 0>> ELSE IF text = "t2" THEN <<0, 1>> ELSE <<1, 1>>

embed(texts) == [i \in 1..Len(texts) |-> EmbedVec(texts[i])]

NoResult == [skipped |-> FALSE, file_id |-> <<>>, parents_created |-> 0,
             chunks_created |-> 0, error |-> None]

\* IngestionResult(skipped=True, file_id=existing.file_id)
SkippedResult(file_id) == [NoResult EXCEPT !.skipped = TRUE, !.file_id = file_id]

\* the handler returning a result without the error
ErrorResultDropped(file_id, e) == [NoResult EXCEPT !.file_id = file_id]

\* IngestionResult(file_id=file_id, error=str(e))
ErrorResult(file_id, e) == [NoResult EXCEPT !.file_id = file_id, !.error = e]

\* IngestionResult(file_id, parents_created=len(parents), chunks_created=len(all_chunks))
SuccessResult(file_id, parents, chunks) ==
    [NoResult EXCEPT !.file_id = file_id, !.parents_created = Len(parents),
                     !.chunks_created = Len(chunks)]

IdleRun ==
    [pc |-> "idle", project_id |-> <<>>, file_bytes |-> None, index_version |-> <<>>,
     file_id |-> <<>>, doc_hash |-> None, callNo |-> 0, parents |-> <<>>,
     chunks |-> <<>>, addFile |-> FALSE, store |-> <<>>, result |-> NoResult,
     raised |-> None, priorSuccess |-> FALSE, priorFailure |-> FALSE,
     nVectors |-> -1]

IdleSearch == [pc |-> "idle", view |-> <<>>, snapshot |-> <<>>,
               project_id |-> <<>>, index_version |-> <<>>, hits |-> <<>>]

RunKey(s) == <<s.project_id, s.doc_hash, s.index_version>>

\* the idempotency query keyed on file_id where doc_hash is meant
IngestionLogRowsByFileId(log, project_id, doc_hash, index_version) ==
    { row \in log : /\ row.project_id = project_id
                    /\ row.file_id = doc_hash
                    /\ row.index_version = index_version }

\* the idempotency query without the index_version filter
IngestionLogRowsAnyVersion(log, project_id, doc_hash, index_version) ==
    { row \in log : /\ row.project_id = project_id
                    /\ row.doc_hash = doc_hash }

\* the idempotency query: the ingestion_log rows of (project_id, doc_hash, index_version)
IngestionLogRows(log, project_id, doc_hash, index_version) ==
    { row \in log : /\ row.project_id = project_id
                    /\ row.doc_hash = doc_hash
                    /\ row.index_version = index_version }

\* the unique index ix_ingestion_log_project_hash_version and the primary keys
\* that the INSERTs of the final commit must respect
IntegrityViolation(s) ==
    \/ \E row \in ilog : /\ row.project_id = s.project_id
                         /\ row.doc_hash = s.doc_hash
                         /\ row.index_version = s.index_version
    \/ s.addFile /\ \E f \in dbFiles : f.file_id = s.file_id
    \/ \E i \in 1..Len(s.parents) : \E p \in dbParents : p.parent_id = s.parents[i].parent_id
    \/ \E i \in 1..Len(s.chunks) : \E c \in dbChunks : c.chunk_id = s.chunks[i].chunk_id

ParentRows(s) ==
    { [parent_id |-> s.parents[i].parent_id, project_id |-> s.project_id,
       file_id |-> s.file_id, index_version |-> s.index_version,
       doc_hash |-> s.doc_hash] : i \in 1..Len(s.parents) }

ChunkRows(s) ==
    { [chunk_id |-> s.chunks[i].chunk_id, project_id |-> s.project_id,
       file_id |-> s.file_id, parent_id |-> s.chunks[i].parent_id,
       chunk_text |-> s.chunks[i].chunk_text, index_version |-> s.index_version,
       doc_hash |-> s.doc_hash] : i \in 1..Len(s.chunks) }

FileRow(s) == [file_id |-> s.file_id, project_id |-> s.project_id, doc_hash |-> s.doc_hash]

LogRow(s) == [project_id |-> s.project_id, file_id |-> s.file_id,
              doc_hash |-> s.doc_hash, index_version |-> s.index_version]

\* records = [VectorRecord(...) for c, vec in zip(all_chunks, vectors)]
VectorRecords(s, vectors) ==
    [i \in 1..MinNat(Len(s.chunks), Len(vectors)) |->
        [chunk_id |-> s.chunks[i].chunk_id, vector |-> vectors[i],
         project_id |-> s.project_id, file_id |-> s.file_id,
         parent_id |-> s.chunks[i].parent_id, chunk_type |-> s.chunks[i].chunk_type,
         chunk_text |-> s.chunks[i].chunk_text, loc |-> s.chunks[i].loc,
         index_version |-> s.index_version, doc_hash |-> s.doc_hash,
         is_deleted |-> FALSE]]

\* parents and children of the document, with fresh ids
BuildParents(s) == << [parent_id |-> Uuid(s.callNo, 1)] >>

BuildChunks(s) ==
    LET texts == DocChunkTexts(s.file_bytes)
    IN  [i \in 1..Len(texts) |->
            [chunk_id |-> Uuid(s.callNo, 1 + i), parent_id |-> Uuid(s.callNo, 1),
             chunk_type |-> "text", chunk_text |-> texts[i],
             embedding_text |-> texts[i], loc |-> "loc"]]

\* the projects that index jobs are started for
JobProjects == { <<"a">>, <<"q">> }

\* no job yet; active_index_version is NULL for every project
NoJobs == [table |-> <<>>, active |-> [p \in JobProjects |-> <<None>>],
           project_id |-> <<>>, hits |-> <<>>]

IngInit ==
    /\ jobs = NoJobs
    /\ ilog = {}
    /\ dbProjects = {}
    /\ dbFiles = {}
    /\ dbParents = {}
    /\ dbChunks = {}
    /\ run = [r \in Workers |-> IdleRun]
    /\ nCalls = 0
    /\ srch = IdleSearch
    /\ committed = <<>>
    /\ succeeded = {}

\* except Exception as e: db.rollback(); return IngestionResult(file_id, error=str(e))
Fail(r, step, e) ==
    run' = [run EXCEPT ![r].pc = "done", ![r].raised = step,
                       ![r].result = ErrorResult(run[r].file_id, e)]

\* the files rows a caller can name in file_id: the job runner passes the id of
\* an uploaded file of the project, whose bytes it read (job_runner.py, lines 58-72)
KnownFileIds(a) ==
    { f.file_id : f \in { g \in dbFiles : /\ g.project_id = a.project_id
                                          /\ g.doc_hash = sha256(a.file_bytes) } }

\* a worker starts ingest_file, with a known file_id or none (""): doc_hash,
\* file_id = file_id or str(uuid.uuid4()), the session (lines 76-78)
Call(r) ==
    /\ run[r].pc = "idle"
    /\ nCalls < MaxCalls
    /\ \E a \in IngArgs : \E fid \in {<<>>} \cup KnownFileIds(a) :
        run' = [run EXCEPT ![r] =
            [IdleRun EXCEPT !.pc = "check", !.project_id = a.project_id,
                !.file_bytes = a.file_bytes, !.index_version = a.index_version,
                !.doc_hash = sha256(a.file_bytes), !.callNo = nCalls + 1,
                !.file_id = IF fid = <<>> THEN Uuid(nCalls + 1, 0) ELSE fid,
                !.priorSuccess =
                    <<a.project_id, sha256(a.file_bytes), a.index_version>>
                        \in succeeded,
                !.priorFailure =
                    \E w \in Workers \ {r} :
                        /\ run[w].pc = "done"
                        /\ run[w].result.error # None
                        /\ RunKey(run[w]) = <<a.project_id, sha256(a.file_bytes),
                                              a.index_version>>]]
    /\ nCalls' = nCalls + 1
    /\ UNCHANGED <<jobs, chunking, vsVars, disk, dbVars, srch, committed, succeeded>>

\* the idempotency check (lines 81-91)
Check(r) ==
    /\ run[r].pc = "check"
    /\ LET existing == IngestionLogRows(ilog, run[r].project_id, run[r].doc_hash,
                                        run[r].index_version)
       IN  IF existing # {}
           THEN run' = [run EXCEPT ![r].pc = "done",
                   ![r].result = SkippedResult((CHOOSE row \in existing : TRUE).file_id)]
           ELSE run' = [run EXCEPT ![r].pc = "project"]
    /\ UNCHANGED <<jobs, chunking, vsVars, disk, dbVars, nCalls, srch, committed, succeeded>>

\* proj = db.query(Project)...first() (line 94)
ProjectQuery(r) ==
    /\ run[r].pc = "project"
    /\ run' = [run EXCEPT ![r].pc =
                  IF run[r].project_id \in dbProjects THEN "parse" ELSE "project_commit"]
    /\ UNCHANGED <<jobs, chunking, vsVars, disk, dbVars, nCalls, srch, committed, succeeded>>

\* db.add(Project(project_id)); db.commit() (lines 96-97)
ProjectCommit(r) ==
    /\ run[r].pc = "project_commit"
    /\ IF run[r].project_id \in dbProjects
       THEN /\ Fail(r, "commit", "IntegrityError")
            /\ UNCHANGED dbProjects
       ELSE /\ dbProjects' = dbProjects \cup {run[r].project_id}
            /\ run' = [run EXCEPT ![r].pc = "parse"]
    /\ UNCHANGED <<jobs, chunking, vsVars, disk, ilog, dbFiles, dbParents, dbChunks, nCalls, srch,
                   committed, succeeded>>

\* parser.parse, build_parents, the image annex and build_children, each of which
\* may raise; they touch nothing another call sees (lines 100-121)
ParseAndChunk(r) ==
    /\ run[r].pc = "parse"
    /\ \/ run' = [run EXCEPT ![r].pc = "file_query",
                             ![r].parents = BuildParents(run[r]),
                             ![r].chunks = BuildChunks(run[r])]
       \/ Fail(r, "parse", "parse failed")
       \/ Fail(r, "chunking", "chunking failed")
       \/ Fail(r, "image", "image annex failed")
    /\ UNCHANGED <<jobs, chunking, vsVars, disk, dbVars, nCalls, srch, committed, succeeded>>

\* db.add(Parent(..)) for each parent; existing_file = db.query(File)...first()
\* (lines 124-151)
FileQuery(r) ==
    /\ run[r].pc = "file_query"
    /\ run' = [run EXCEPT ![r].pc = "vs_new",
                  ![r].addFile = ~\E f \in dbFiles : f.file_id = run[r].file_id]
    /\ UNCHANGED <<jobs, chunking, vsVars, disk, dbVars, nCalls, srch, committed, succeeded>>

\* vs = get_vector_store_adapter(): a new adapter, which loads the snapshot
\* (lines 157-160)
VsNew(r) ==
    /\ run[r].pc = "vs_new"
    /\ run' = [run EXCEPT ![r].store = _load(disk),
                  ![r].pc = IF Len(run[r].chunks) > 0 THEN "embed" ELSE "commit"]
    /\ UNCHANGED <<jobs, chunking, vsVars, disk, dbVars, nCalls, srch, committed, succeeded>>

\* vectors = embedder.embed(texts), which may raise; the records; the loop of
\* vs.upsert over the adapter's own dict (lines 161-177, store lines 55-70)
Embed(r) ==
    /\ run[r].pc = "embed"
    /\ \/ LET texts == [i \in 1..Len(run[r].chunks) |-> run[r].chunks[i].embedding_text]
              records == VectorRecords(run[r], embed(texts))
          IN  run' = [run EXCEPT ![r].pc = "save_open",
                                 ![r].store = upsert(run[r].store, records),
                                 ![r].nVectors = Len(embed(texts))]
       \/ Fail(r, "embed", "embedding failed")
    /\ UNCHANGED <<jobs, chunking, vsVars, disk, dbVars, nCalls, srch, committed, succeeded>>

\* _save: write_text opens the file for writing, which truncates it, or raises
SaveOpen(r) ==
    /\ run[r].pc = "save_open"
    /\ \/ /\ disk' = TruncatedFile
          /\ run' = [run EXCEPT ![r].pc = "save_write"]
       \/ /\ Fail(r, "upsert", "OSError")
          /\ UNCHANGED disk
    /\ UNCHANGED <<jobs, chunking, vsVars, dbVars, nCalls, srch, committed, succeeded>>

\* _save: the text is written and the file closed
SaveWrite(r) ==
    /\ run[r].pc = "save_write"
    /\ disk' = SavedFile(run[r].store)
    /\ committed' = run[r].store
    /\ run' = [run EXCEPT ![r].pc = "commit"]
    /\ UNCHANGED <<jobs, chunking, vsVars, dbVars, nCalls, srch, succeeded>>

\* a rollback that leaves the pending rows in the table
rollback_nothing(pending, rows) == rows \cup pending

\* db.rollback(): the pending rows of the session are discarded (line 220)
rollback(pending, rows) == rows

\* db.add(Chunk(..)) for each chunk, db.add(IngestionLog(..)), db.commit(): the
\* pending rows are inserted in one transaction, or none is when the commit
\* raises, as it does on a constraint violation (lines 180-218)
Commit(r) ==
    /\ run[r].pc = "commit"
    /\ \/ /\ ~IntegrityViolation(run[r])
          /\ dbParents' = dbParents \cup ParentRows(run[r])
          /\ dbFiles' = IF run[r].addFile THEN dbFiles \cup {FileRow(run[r])} ELSE dbFiles
          /\ dbChunks' = dbChunks \cup ChunkRows(run[r])
          /\ ilog' = ilog \cup {LogRow(run[r])}
          /\ run' = [run EXCEPT ![r].pc = "done",
                        ![r].result = SuccessResult(run[r].file_id, run[r].parents,
                                                    run[r].chunks)]
          /\ succeeded' = succeeded \cup {RunKey(run[r])}
       \/ /\ Fail(r, "commit", IF IntegrityViolation(run[r]) THEN "IntegrityError"
                                                             ELSE "commit failed")
          /\ ilog' = rollback({LogRow(run[r])}, ilog)
          /\ UNCHANGED <<dbFiles, dbParents, dbChunks, succeeded>>
    /\ UNCHANGED <<jobs, chunking, vsVars, disk, dbProjects, nCalls, srch, committed>>

\* the caller has the result; the worker is free again
Return(r) ==
    /\ run[r].pc = "done"
    /\ run' = [run EXCEPT ![r] = IdleRun]
    /\ UNCHANGED <<jobs, chunking, vsVars, disk, dbVars, nCalls, srch, committed, succeeded>>

(***************************************************************************)
(* The recall stage of a search running beside the ingestions              *)
(* (retrieval/search.py, lines 108-117).                                   *)
(***************************************************************************)
\* recall_top_k: int = 50
RecallTopK == 50

IngScopes == { [project_id |-> a.project_id, index_version |-> a.index_version] :
               a \in IngArgs }

\* vs = get_vector_store_adapter(): a new adapter, which loads the snapshot
SearchNew ==
    /\ srch.pc = "idle"
    /\ srch' = [IdleSearch EXCEPT !.pc = "loaded", !.view = _load(disk),
                                  !.snapshot = committed]
    /\ UNCHANGED <<jobs, chunking, vsVars, disk, dbVars, run, nCalls, committed, succeeded>>

\* hits = vs.search(vector=query_vec, top_k=recall_top_k, project_id, index_version)
SearchRecall ==
    /\ srch.pc = "loaded"
    /\ \E scope \in IngScopes :
        srch' = [srch EXCEPT !.pc = "done", !.project_id = scope.project_id,
                    !.index_version = scope.index_version,
                    !.hits = search(srch.view, <<1, 0>>, RecallTopK, scope.project_id,
                                    scope.index_version, <<>>)]
    /\ UNCHANGED <<jobs, chunking, vsVars, disk, dbVars, run, nCalls, committed, succeeded>>

SearchReturn ==
    /\ srch.pc = "done"
    /\ srch' = IdleSearch
    /\ UNCHANGED <<jobs, chunking, vsVars, disk, dbVars, run, nCalls, committed, succeeded>>

Ingest(r) ==
    \/ Call(r)
    \/ Check(r)
    \/ ProjectQuery(r)
    \/ ProjectCommit(r)
    \/ ParseAndChunk(r)
    \/ FileQuery(r)
    \/ VsNew(r)
    \/ Embed(r)
    \/ SaveOpen(r)
    \/ SaveWrite(r)
    \/ Commit(r)
    \/ Return(r)

\* the ingestion specification: the worker threads run ingest_file
Next == \E r \in Workers : Ingest(r)

Init ==
    /\ vsStore = <<>>
    /\ vsLast = [op |-> "new"]
    /\ vsCalls = 0
    /\ disk = NoFile
    /\ IngInit
    /\ chunking = [pc |-> "none"]

Spec == Init /\ [][Next]_vars

\* the search specification: one worker runs ingest_file while a search runs
SearchNext ==
    \/ Ingest(1)
    \/ SearchNew
    \/ SearchRecall
    \/ SearchReturn

SearchSpec == Init /\ [][SearchNext]_vars

(***************************************************************************)
(* The vector store specification: one adapter, called with records and    *)
(* queries whose project ids, version labels and chunk ids are arbitrary   *)
(* strings (project_id is a URL path segment, index_version a request      *)
(* field: neither is validated).                                           *)
(***************************************************************************)
VSScopes ==
    { [project_id |-> <<"a">>, index_version |-> <<"b", ":", "c">>],
      [project_id |-> <<"a", ":", "b">>, index_version |-> <<"c">>],
      [project_id |-> <<"a">>, index_version |-> <<"b">>] }

VSChunkIds == { <<"1">>, <<"2">> }

VSVectors == { <<1, 0>>, <<0, 1>> }

VSFileOf(vector) == IF vector = <<1, 0>> THEN "f1" ELSE "f2"

VSRecord(scope, chunk_id, vector, deleted) ==
    [chunk_id |-> chunk_id, vector |-> vector, project_id |-> scope.project_id,
     file_id |-> VSFileOf(vector), parent_id |-> "par1", chunk_type |-> "text",
     chunk_text |-> "t", loc |-> "loc", index_version |-> scope.index_version,
     doc_hash |-> "h1", is_deleted |-> deleted]

VSScopeC == [project_id |-> <<"a">>, index_version |-> <<"b">>]

VSRecords ==
    { VSRecord(s, <<"1">>, v, FALSE) : s \in VSScopes, v \in VSVectors }
    \cup { VSRecord(s, <<"2">>, <<0, 1>>, FALSE) : s \in VSScopes }
    \cup { VSRecord(VSScopeC, <<"1">>, <<0, 1>>, TRUE) }

\* the second record of a two-record batch
VSSeconds ==
    { VSRecord(s, <<"1">>, <<1, 0>>, FALSE) : s \in VSScopes }
    \cup { VSRecord(VSScopeC, <<"1">>, <<0, 1>>, TRUE) }

VSBatches ==
    { <<r>> : r \in VSRecords } \cup { <<r1, r2>> : r1 \in VSRecords, r2 \in VSSeconds }

VSQueryVectors == { <<1, 0>>, <<1, 1>> }

VSTopKs == 1..2

VSFilters == { <<>>, << <<"file_id", "f1">> >> }

VSInit == Init

\* upsert(records), with the _save that ends it
VSUpsert ==
    /\ vsCalls < MaxUpserts
    /\ \E records \in VSBatches :
        /\ vsStore' = upsert(vsStore, records)
        /\ vsLast' = [op |-> "upsert", records |-> records, before |-> vsStore]
    /\ vsCalls' = vsCalls + 1
    /\ disk' = SavedFile(vsStore')
    /\ UNCHANGED ingVars

VSSearch ==
    /\ \E vector \in VSQueryVectors, top_k \in VSTopKs, scope \in VSScopes,
          filters \in VSFilters :
        vsLast' = [op |-> "search", vector |-> vector, top_k |-> top_k,
                   project_id |-> scope.project_id,
                   index_version |-> scope.index_version, filters |-> filters,
                   hits |-> search(vsStore, vector, top_k, scope.project_id,
                                   scope.index_version, filters)]
    /\ UNCHANGED <<vsStore, vsCalls, disk, ingVars>>

VSNext == VSUpsert \/ VSSearch

VSSpec == VSInit /\ [][VSNext]_vars

(***************************************************************************)
(* Properties of the vector store (checked under VSSpec).                  *)
(***************************************************************************)
Triple(rec) == <<rec.project_id, rec.index_version, rec.chunk_id>>

\* the records of a store that belong to the scope (project_id, index_version)
\* and pass the filters: the candidates of the reference search
ScopeMatches(store, project_id, index_version, filters) ==
    { i \in 1..Len(store) :
        /\ store[i].rec.project_id = project_id
        /\ store[i].rec.index_version = index_version
        /\ PassesFilters(store[i].rec, filters) }

\* C5: every hit of search(vector, top_k, project, index_version, filters) has the
\* requested project_id and the requested index_version, for arbitrary strings
C5_HitsInRequestedScope ==
    vsLast.op = "search" =>
        \A i \in 1..Len(vsLast.hits) :
            /\ vsLast.hits[i].project_id = vsLast.project_id
            /\ vsLast.hits[i].index_version = vsLast.index_version

\* the non-deleted records of a batch that are the last of their triple in it
LastOfTriple(records) ==
    { i \in 1..Len(records) :
        /\ ~records[i].is_deleted
        /\ \A j \in (i + 1)..Len(records) :
              records[j].is_deleted \/ Triple(records[j]) # Triple(records[i]) }

\* C9: upsert is replace-by-key on (project, index_version, chunk_id): after the
\* upsert of a non-deleted record r the store holds exactly one record of r's
\* triple, equal to r, and every stored record of another triple is unchanged
C9_UpsertReplacesByTriple ==
    vsLast.op = "upsert" =>
        /\ \A i \in LastOfTriple(vsLast.records) :
              LET r == vsLast.records[i]
                  same == { k \in 1..Len(vsStore) : Triple(vsStore[k].rec) = Triple(r) }
              IN  /\ Cardinality(same) = 1
                  /\ \A k \in same : vsStore[k].rec = StoredRec(r)
        /\ \A k \in 1..Len(vsLast.before) :
              LET old == vsLast.before[k].rec
              IN  (\A i \in 1..Len(vsLast.records) :
                      vsLast.records[i].is_deleted
                      \/ Triple(vsLast.records[i]) # Triple(old))
                  => \E m \in 1..Len(vsStore) : vsStore[m].rec = old

\* scores are non-increasing along the hits
ScoresNonIncreasing(hits) ==
    \A i \in 1..(Len(hits) - 1) : SimGE(hits[i].score, hits[i + 1].score)

\* C10: the result of search equals the reference result: the stored records of
\* the scope that pass the filters, by descending cosine similarity, cut to top_k
C10_SearchEqualsReference ==
    vsLast.op = "search" =>
        LET hits == vsLast.hits
            M == ScopeMatches(vsStore, vsLast.project_id, vsLast.index_version,
                              vsLast.filters)
            sim(i) == _cosine_similarity(vsLast.vector, vsStore[i].rec.vector)
        IN  /\ Len(hits) = MinNat(vsLast.top_k, Cardinality(M))
            /\ ScoresNonIncreasing(hits)
            /\ \E f \in [1..Len(hits) -> M] :
                  /\ \A i, j \in 1..Len(hits) : i # j => f[i] # f[j]
                  /\ \A i \in 1..Len(hits) :
                        hits[i] = SearchHit([sim |-> sim(f[i]), rec |-> vsStore[f[i]].rec])
                  /\ \A m \in M :
                        (\A i \in 1..Len(hits) : f[i] # m)
                        => \A i \in 1..Len(hits) : SimGE(hits[i].score, sim(m))

(***************************************************************************)
(* Properties of ingest_file (checked under Spec and SearchSpec).          *)
(***************************************************************************)
RunChunkIds(s) == { s.chunks[i].chunk_id : i \in 1..Len(s.chunks) }

RunParentIds(s) == { s.parents[i].parent_id : i \in 1..Len(s.parents) }

\* the chunk ids of the vector records of a store
StoreChunkIds(store) == { store[i].rec.chunk_id : i \in 1..Len(store) }

Succeeded(s) == s.pc = "done" /\ ~s.result.skipped /\ s.result.error = None

Failed(s) == s.pc = "done" /\ s.result.error # None

\* the call has built chunks and all their vector records are in the snapshot file
VectorsOnDisk(s) ==
    /\ RunChunkIds(s) # {}
    /\ RunChunkIds(s) \subseteq StoreChunkIds(_load(disk))

\* C1: once a call for (project, bytes, index_version) has returned success,
\* every later call for the same triple returns skipped=true and creates no
\* Parent row, no Chunk row, no vector record and no idempotency record
C1_LaterCallSkipped ==
    [][\A r \in Workers :
          (run'[r] # run[r] /\ (run[r].priorSuccess \/ run'[r].priorSuccess))
          => /\ UNCHANGED <<ilog, dbParents, dbChunks, dbFiles, disk>>
             /\ run'[r].pc \in {"check", "done", "idle"}
             /\ run'[r].pc = "done"
                   => run'[r].result.skipped /\ run'[r].result.error = None]_vars

\* a call made after a success for the same triple has returned skipped
C1_Witness ==
    \E r \in Workers :
        run[r].pc = "done" /\ run[r].priorSuccess /\ run[r].result.skipped

\* C2: of two concurrent calls with identical bytes, project and index_version at
\* most one gets past the idempotency check and goes on to upsert vectors: the
\* vector store never holds the chunks of both
C2_OnlyOneRunUpserts ==
    \A r1, r2 \in Workers :
        (r1 # r2 /\ run[r1].pc # "idle" /\ run[r2].pc # "idle"
            /\ RunKey(run[r1]) = RunKey(run[r2]))
        => ~(VectorsOnDisk(run[r1]) /\ VectorsOnDisk(run[r2]))

\* C3: when ingest_file returns an error, no vector record, Parent row or Chunk
\* row of that call remains, and a search of its scope returns no hit of the call
C3_FailedRunLeavesNothing ==
    \A r \in Workers :
        Failed(run[r])
        => /\ RunChunkIds(run[r]) \cap StoreChunkIds(_load(disk)) = {}
           /\ \A row \in dbChunks : row.chunk_id \notin RunChunkIds(run[r])
           /\ \A row \in dbParents : row.parent_id \notin RunParentIds(run[r])
           /\ LET hits == search(_load(disk), <<1, 0>>, RecallTopK, run[r].project_id,
                                 run[r].index_version, <<>>)
              IN  \A i \in 1..Len(hits) : hits[i].chunk_id \notin RunChunkIds(run[r])

\* C4: when two calls for different documents both return success, the persisted
\* vector store holds the vector records of both
C4_NoLostVectors ==
    \A r1, r2 \in Workers :
        (r1 # r2 /\ Succeeded(run[r1]) /\ Succeeded(run[r2])
            /\ run[r1].file_bytes # run[r2].file_bytes)
        => VectorsOnDisk(run[r1]) /\ VectorsOnDisk(run[r2])

\* C6: a search never observes a partially written upsert: what it recalls is
\* what the last snapshot written in full holds (all of a batch or none of it,
\* and never an empty store because a snapshot was being written)
C6_SearchSeesCommittedSnapshot ==
    srch.pc = "done"
    => srch.hits = search(srch.snapshot, <<1, 0>>, RecallTopK, srch.project_id,
                          srch.index_version, <<>>)

\* C7: a failure of the parser, the chunking policy, the image annex, the
\* embedding call, the vector upsert or the commit ends the call with a result
\* that has error set, skipped=false, parents_created=0 and chunks_created=0
C7_FailureReportedInResult ==
    \A r \in Workers :
        (run[r].pc = "done" /\ run[r].raised # None)
        => /\ run[r].result.error # None
           /\ ~run[r].result.skipped
           /\ run[r].result.parents_created = 0
           /\ run[r].result.chunks_created = 0

\* a call that failed after it had built parents and chunks
C7_Witness ==
    \E r \in Workers :
        /\ run[r].pc = "done"
        /\ run[r].raised \in {"embed", "upsert", "commit"}
        /\ Len(run[r].chunks) > 0
        /\ Len(run[r].parents) > 0

\* a committed idempotency record of the call's (project, content hash, version)
LogHasKey(s) ==
    \E row \in ilog : /\ row.project_id = s.project_id
                      /\ row.doc_hash = s.doc_hash
                      /\ row.index_version = s.index_version

\* the rows and the vector records of a successful call: under its own project
\* and index_version, with ids no other row or record carries
OwnRowsAndVectors(s) ==
    /\ \A c \in RunChunkIds(s) :
          /\ Cardinality({ row \in dbChunks : row.chunk_id = c }) = 1
          /\ \A row \in dbChunks :
                row.chunk_id = c => /\ row.project_id = s.project_id
                                    /\ row.index_version = s.index_version
          /\ \E i \in 1..Len(s.store) :
                /\ s.store[i].rec.chunk_id = c
                /\ s.store[i].rec.project_id = s.project_id
                /\ s.store[i].rec.index_version = s.index_version
          /\ \A i \in 1..Len(s.store) :
                s.store[i].rec.chunk_id = c
                => /\ s.store[i].rec.project_id = s.project_id
                   /\ s.store[i].rec.index_version = s.index_version
    /\ \A p \in RunParentIds(s) :
          /\ Cardinality({ row \in dbParents : row.parent_id = p }) = 1
          /\ \A row \in dbParents :
                row.parent_id = p => /\ row.project_id = s.project_id
                                     /\ row.index_version = s.index_version

delete_by_file(store, project_id, file_id, index_version) ==
    SelectSeq(store,
              LAMBDA e : ~(/\ StartsWith(e.key, SearchPrefix(project_id, index_version))
                           /\ RecGet(e.rec, "file_id") = file_id))

VSDelete ==
    /\ \E scope \in VSScopes, file_id \in { "f1", "f2" } :
        /\ vsStore' = delete_by_file(vsStore, scope.project_id, file_id,
                                     scope.index_version)
        /\ vsLast' = [op |-> "delete", project_id |-> scope.project_id,
                      file_id |-> file_id, index_version |-> scope.index_version,
                      before |-> vsStore]
    /\ disk' = SavedFile(vsStore')
    /\ UNCHANGED <<vsCalls, ingVars>>

VSDeleteNext == VSUpsert \/ VSDelete

VSDeleteSpec == VSInit /\ [][VSDeleteNext]_vars

\* the record is returned by a search of its own scope with its own vector
FoundInOwnScope(store, rec) ==
    \E i \in DOMAIN search(store, rec.vector, Len(store), rec.project_id,
                           rec.index_version, <<>>) :
        search(store, rec.vector, Len(store), rec.project_id,
               rec.index_version, <<>>)[i]
            = SearchHit([sim |-> _cosine_similarity(rec.vector, rec.vector), rec |-> rec])

\* the record belongs to the file file_id of the scope (project_id, index_version)
OfFile(rec, project_id, file_id, index_version) ==
    /\ rec.project_id = project_id
    /\ rec.index_version = index_version
    /\ rec.file_id = file_id

\* C11: delete_by_file(project, file_id, index_version) removes every record of
\* that file within that (project, index_version) and leaves every other record
\* unchanged and still returned by searches of its own scope
C11_DeleteByFileFrame ==
    vsLast.op = "delete" =>
        /\ \A k \in 1..Len(vsStore) :
              ~OfFile(vsStore[k].rec, vsLast.project_id, vsLast.file_id,
                      vsLast.index_version)
        /\ \A k \in 1..Len(vsLast.before) :
              LET old == vsLast.before[k].rec
              IN  ~OfFile(old, vsLast.project_id, vsLast.file_id, vsLast.index_version)
                  => /\ \E m \in 1..Len(vsStore) : vsStore[m] = vsLast.before[k]
                     /\ FoundInOwnScope(vsStore, old)
        /\ \A m \in 1..Len(vsStore) :
              \E k \in 1..Len(vsLast.before) : vsStore[m] = vsLast.before[k]

(***************************************************************************)
(* upsert of one record followed by a search with the record's own vector  *)
(* and scope (tests/test_retrieval.py, test_vector_store_upsert_search),   *)
(* from any prior content of the store.                                    *)
(***************************************************************************)
RTRecords ==
    LET scopes == { [project_id |-> <<"a">>, index_version |-> <<"b">>],
                    [project_id |-> <<"a">>, index_version |-> <<"b", ":", "c">>] }
        vectors == { <<1, 0>>, <<2, 0>>, <<0, 1>>, <<0, 0>> }
        record(s, c, v, deleted) == [VSRecord(s, c, v, deleted) EXCEPT !.file_id = "f1"]
    IN  { record(s, c, v, FALSE) : s \in scopes, c \in VSChunkIds, v \in vectors }
        \cup { record(VSScopeC, <<"1">>, <<1, 0>>, TRUE) }

\* vs.upsert([record])
RTUpsert ==
    /\ vsCalls < MaxUpserts
    /\ \E r \in RTRecords :
        /\ vsStore' = upsert(vsStore, <<r>>)
        /\ vsLast' = [op |-> "upsert", records |-> <<r>>, before |-> vsStore]
    /\ vsCalls' = vsCalls + 1
    /\ disk' = SavedFile(vsStore')
    /\ UNCHANGED ingVars

\* vs.search(vec, top_k, project_id, index_version) for the record just upserted
RTSearch ==
    /\ vsLast.op = "upsert"
    /\ \E top_k \in VSTopKs :
        LET r == vsLast.records[1]
        IN  vsLast' = [op |-> "upsert_search", record |-> r, top_k |-> top_k,
                       hits |-> search(vsStore, r.vector, top_k, r.project_id,
                                       r.index_version, <<>>)]
    /\ UNCHANGED <<vsStore, vsCalls, disk, ingVars>>

RTNext == RTUpsert \/ RTSearch

RTSpec == VSInit /\ [][RTNext]_vars

\* the hit is the stored form of record r, with similarity 1
IsHitOf(hit, r) ==
    /\ SimIsOne(hit.score)
    /\ hit = SearchHit([sim |-> hit.score, rec |-> StoredRec(r)])

Fin(x) == [kind |-> "finite", val |-> x]

\* math.isfinite(v)
isfinite(v) == v.kind = "finite"

\* a float passed on as it is
_safe_float_off(v) == v

_safe_float(v) == IF isfinite(v) THEN v ELSE Fin(0)

\* index_version: None is the one-element sequence <<None>>, "" is <<>>
NoneStr == <<None>>

\* "not index_version"
Falsy(s) == s = NoneStr \/ s = <<>>

SrVersionArgs == { NoneStr, <<>>, <<"v">> }

\* db.query(Project).filter(...).first(): no row, or a row with its
\* active_index_version
SrProjects ==
    { [found |-> FALSE, active_index_version |-> NoneStr],
      [found |-> TRUE, active_index_version |-> NoneStr],
      [found |-> TRUE, active_index_version |-> <<"v">>] }

RerankTopNs == 1..2

\* what vs.search may return: hits of two chunks, with any score
SrHit(c, score) ==
    [chunk_id |-> c, score |-> score, project_id |-> "p", file_id |-> "f" \o c,
     parent_id |-> "par" \o c, chunk_type |-> "text", chunk_text |-> "text " \o c,
     loc |-> "loc" \o c, index_version |-> "v", doc_hash |-> "h" \o c]

SrHitLists ==
    LET As == { SrHit("A", Fin(9)), SrHit("A", [kind |-> "inf", val |-> 0]) }
        Bs == { SrHit("B", Fin(5)), SrHit("B", [kind |-> "nan", val |-> 0]) }
    IN  { <<>> } \cup { <<h>> : h \in As \cup Bs }
        \cup { <<g, h>> : g \in As, h \in Bs }

\* what rerank_provider.rerank may return: RerankResult(index, score, text)
RerankResultLists ==
    LET results == { [index |-> i, score |-> s] :
                       i \in -1..2, s \in { Fin(8), [kind |-> "-inf", val |-> 0] } }
    IN  { <<>> } \cup { <<r>> : r \in results }
        \cup { <<r, q>> : r \in results, q \in results }

\* elapsed milliseconds of a stage, (time.perf_counter() - t) * 1000
SrElapsed == { Fin(0), Fin(15) }

\* int(v) of a finite float in tenths
PyInt(v) == v.val \div 10

RecallHit(h) ==
    [chunk_id |-> h.chunk_id, score |-> _safe_float(h.score),
     chunk_text |-> h.chunk_text, parent_id |-> h.parent_id, file_id |-> h.file_id,
     chunk_type |-> h.chunk_type, loc |-> h.loc]

\* recall[i] of Python for a list of length n: 0 when it raises IndexError
PyIndex(n, i) ==
    IF 0 <= i /\ i < n THEN i + 1
    ELSE IF -n <= i /\ i < 0 THEN n + i + 1
    ELSE 0

\* a rerank hit that keeps the recall score
RerankHitRecallScore(orig, rr) ==
    [chunk_id |-> orig.chunk_id, score |-> orig.score,
     chunk_text |-> orig.chunk_text, parent_id |-> orig.parent_id,
     file_id |-> orig.file_id, chunk_type |-> orig.chunk_type, loc |-> orig.loc]

RerankHit(orig, rr) ==
    [chunk_id |-> orig.chunk_id, score |-> _safe_float(rr.score),
     chunk_text |-> orig.chunk_text, parent_id |-> orig.parent_id,
     file_id |-> orig.file_id, chunk_type |-> orig.chunk_type, loc |-> orig.loc]

\* the debug payload is a dict, given as the sequence of its items
NoVersionResultAlwaysNote(debug) ==
    [recall |-> <<>>, rerank |-> <<>>,
     timings_ms |-> [embed |-> 0, recall |-> 0, rerank |-> 0],
     debug |-> << <<"error", "No index version">> >>]

NoVersionResult(debug) ==
    [recall |-> <<>>, rerank |-> <<>>,
     timings_ms |-> [embed |-> 0, recall |-> 0, rerank |-> 0],
     debug |-> IF debug THEN << <<"error", "No index version">> >> ELSE <<>>]

SearchResult(s) ==
    [recall |-> s.recall, rerank |-> s.rerank,
     timings_ms |-> [embed |-> PyInt(s.timings.embed), recall |-> PyInt(s.timings.recall),
                     rerank |-> PyInt(s.timings.rerank)],
     debug |-> IF s.debug THEN << <<"index_version", s.index_version>> >> ELSE <<>>]

NoCalls == [embed |-> 0, vs |-> 0, rerank |-> 0]

SrCall ==
    /\ srch.pc = "idle"
    /\ \E iv \in SrVersionArgs, proj \in SrProjects, debug \in BOOLEAN,
          top_n \in RerankTopNs :
        srch' = [pc |-> "resolve", arg |-> iv, proj |-> proj, debug |-> debug,
                 rerank_top_n |-> top_n, index_version |-> iv, calls |-> NoCalls,
                 hits |-> <<>>, recall |-> <<>>, reranked |-> <<>>, rerank |-> <<>>,
                 timings |-> [embed |-> Fin(0), recall |-> Fin(0), rerank |-> Fin(0)],
                 result |-> NoResult]
    /\ UNCHANGED <<jobs, chunking, vsVars, disk, dbVars, run, nCalls, committed, succeeded>>

\* lines 74-90: resolve the index version, or return the empty result
SrResolve ==
    /\ srch.pc = "resolve"
    /\ LET iv == IF Falsy(srch.index_version)
                 THEN IF srch.proj.found THEN srch.proj.active_index_version
                      ELSE NoneStr
                 ELSE srch.index_version
       IN  srch' = IF Falsy(iv)
                   THEN [srch EXCEPT !.pc = "returned", !.index_version = iv,
                                     !.result = NoVersionResult(srch.debug)]
                   ELSE [srch EXCEPT !.pc = "embed", !.index_version = iv]
    /\ UNCHANGED <<jobs, chunking, vsVars, disk, dbVars, run, nCalls, committed, succeeded>>

\* lines 92-95: embedder.embed([query])
SrEmbed ==
    /\ srch.pc = "embed"
    /\ \E t \in SrElapsed :
        srch' = [srch EXCEPT !.pc = "recall", !.calls.embed = @ + 1,
                             !.timings.embed = t]
    /\ UNCHANGED <<jobs, chunking, vsVars, disk, dbVars, run, nCalls, committed, succeeded>>

\* lines 108-134: vs.search and the recall list
SrRecall ==
    /\ srch.pc = "recall"
    /\ \E hits \in SrHitLists, t \in SrElapsed :
        srch' = [srch EXCEPT !.pc = "rerank", !.calls.vs = @ + 1, !.hits = hits,
                             !.recall = [i \in 1..Len(hits) |-> RecallHit(hits[i])],
                             !.timings.recall = t]
    /\ UNCHANGED <<jobs, chunking, vsVars, disk, dbVars, run, nCalls, committed, succeeded>>

\* lines 152-174: rerank and remap; recall[rr.index] may raise IndexError
SrRerank ==
    /\ srch.pc = "rerank"
    /\ \E reranked \in RerankResultLists, t \in SrElapsed :
        LET n == Len(srch.recall)
        IN  IF srch.recall = <<>>
            THEN /\ reranked = <<>>
                 /\ srch' = [srch EXCEPT !.pc = "return", !.timings.rerank = t]
            ELSE IF \E k \in 1..Len(reranked) : PyIndex(n, reranked[k].index) = 0
            THEN /\ t = Fin(0)
                 /\ srch' = [srch EXCEPT !.pc = "raised", !.calls.rerank = @ + 1,
                                         !.reranked = reranked]
            ELSE srch' = [srch EXCEPT
                            !.pc = "return", !.calls.rerank = @ + 1,
                            !.reranked = reranked,
                            !.rerank = [k \in 1..Len(reranked) |->
                                RerankHit(srch.recall[PyIndex(n, reranked[k].index)],
                                          reranked[k])],
                            !.timings.rerank = t]
    /\ UNCHANGED <<jobs, chunking, vsVars, disk, dbVars, run, nCalls, committed, succeeded>>

\* lines 188-219
SrReturn ==
    /\ srch.pc = "return"
    /\ srch' = [srch EXCEPT !.pc = "returned", !.result = SearchResult(srch)]
    /\ UNCHANGED <<jobs, chunking, vsVars, disk, dbVars, run, nCalls, committed, succeeded>>

SrNext == SrCall \/ SrResolve \/ SrEmbed \/ SrRecall \/ SrRerank \/ SrReturn

SrSpec == Init /\ [][SrNext]_vars

(***************************************************************************)
(* Properties of search (checked under SrSpec).                            *)
(***************************************************************************)
\* the call gave no index_version and the project has no active one
NoVersion(s) ==
    /\ Falsy(s.arg)
    /\ ~s.proj.found \/ Falsy(s.proj.active_index_version)

\* C13: search without an index_version for a project without an active index
\* version (or without a project record) returns a successful result with empty
\* recall and rerank lists, calls neither the embedding, the vector store nor the
\* rerank capability, and its debug payload carries a note only when debug was
\* requested
C13_NoActiveVersionEmptyResult ==
    (srch.pc \notin {"idle", "loaded", "done", "resolve"} /\ NoVersion(srch)) =>
        /\ srch.pc = "returned"
        /\ srch.result.recall = <<>>
        /\ srch.result.rerank = <<>>
        /\ srch.calls = NoCalls
        /\ srch.result.debug # <<>> <=> srch.debug

C13_Witness ==
    /\ srch.pc = "returned"
    /\ NoVersion(srch)
    /\ srch.proj.found
    /\ srch.debug
    /\ srch.result.debug = << <<"error", "No index version">> >>

\* the fields a rerank hit takes from a recall hit
Metadata(h) == [h EXCEPT !.score = Fin(0)]

\* search returned a result after calling the rerank capability
Reranked(s) == s.pc = "returned" /\ s.calls.rerank = 1

\* C14 (as stated): for every result {index i, score s} of the rerank capability
\* the final rerank list holds, at the same position, a hit with the metadata of
\* the i-th recall hit and the score s
C14_RerankRemapped ==
    Reranked(srch) =>
        /\ Len(srch.result.rerank) = Len(srch.reranked)
        /\ \A k \in 1..Len(srch.reranked) :
              LET i == srch.reranked[k].index
              IN  /\ 0 <= i /\ i < Len(srch.result.recall)
                  /\ Metadata(srch.result.rerank[k]) = Metadata(srch.result.recall[i + 1])
                  /\ srch.result.rerank[k].score = srch.reranked[k].score

\* C14 (amended): the hit at the same position has the metadata of the recall hit
\* that Python's recall[i] selects (the i-th for 0 <= i < n, the (n + i)-th for
\* -n <= i < 0) and the score s when s is finite, 0 otherwise
C14_RerankRemappedSafeScore ==
    Reranked(srch) =>
        /\ Len(srch.result.rerank) = Len(srch.reranked)
        /\ \A k \in 1..Len(srch.reranked) :
              LET i == srch.reranked[k].index
                  n == Len(srch.result.recall)
                  j == IF i >= 0 THEN i + 1 ELSE n + i + 1
              IN  /\ j \in 1..n
                  /\ Metadata(srch.result.rerank[k]) = Metadata(srch.result.recall[j])
                  /\ srch.result.rerank[k].score =
                        IF isfinite(srch.reranked[k].score) THEN srch.reranked[k].score
                        ELSE Fin(0)

\* recall = [A (0.9), B (0.5)], rerank returns [{index 1, score 0.8}]
C14_Witness ==
    /\ Reranked(srch)
    /\ Len(srch.result.recall) = 2
    /\ srch.result.recall[1].score = Fin(9)
    /\ srch.result.recall[2].score = Fin(5)
    /\ srch.reranked = << [index |-> 1, score |-> Fin(8)] >>
    /\ srch.result.rerank[1].chunk_id = "B"
    /\ srch.result.rerank[1].score = Fin(8)

\* C15: in every result the rerank list is a permutation-and-truncation of the
\* recall list: each entry is the recall hit at the index the rerank capability
\* reported, no recall hit appears twice, and the list is no longer than the
\* recall list nor than rerank_top_n
C15_RerankIsTruncatedPermutation ==
    srch.pc = "returned" =>
        /\ Len(srch.result.rerank) <= Len(srch.result.recall)
        /\ Len(srch.result.rerank) <= srch.rerank_top_n
        /\ \A k \in 1..Len(srch.result.rerank) :
              LET i == srch.reranked[k].index
              IN  /\ 0 <= i /\ i < Len(srch.result.recall)
                  /\ Metadata(srch.result.rerank[k]) = Metadata(srch.result.recall[i + 1])
        /\ \A k, l \in 1..Len(srch.result.rerank) :
              k # l => srch.result.rerank[k].chunk_id # srch.result.rerank[l].chunk_id

\* C16: every recall score, rerank score and timing value of a result is finite,
\* also when the vector store or the rerank capability returns NaN or Infinity;
\* a non-finite score is replaced by 0
C16_NoNonFiniteValue ==
    srch.pc = "returned" =>
        /\ \A i \in 1..Len(srch.result.recall) :
              /\ isfinite(srch.result.recall[i].score)
              /\ ~isfinite(srch.hits[i].score) => srch.result.recall[i].score = Fin(0)
        /\ \A k \in 1..Len(srch.result.rerank) :
              /\ isfinite(srch.result.rerank[k].score)
              /\ ~isfinite(srch.reranked[k].score) => srch.result.rerank[k].score = Fin(0)
        /\ srch.result.timings_ms.embed \in Nat
        /\ srch.result.timings_ms.recall \in Nat
        /\ srch.result.timings_ms.rerank \in Nat

C16_Witness ==
    /\ Reranked(srch)
    /\ \E i \in 1..Len(srch.hits) : ~isfinite(srch.hits[i].score)
    /\ \E k \in 1..Len(srch.reranked) : ~isfinite(srch.reranked[k].score)
    /\ srch.result.timings_ms.rerank > 0

(***************************************************************************)
(* Chunking policies.  A text is a sequence of items [id, len, words, gap]: *)
(* a sentence (or the content of a table) of len characters and words      *)
(* words, preceded in the text by gap whitespace characters: 0 at the      *)
(* start, 1 for " ", 2 for "\n\n".  Every sentence and every table ends    *)
(* with '.', '!' or '?' and block contents are not empty, so _sentences    *)
(* splits a text into its items.  Chunk ids are fresh uuid4 values and are *)
(* left out.                                                               *)
(***************************************************************************)
RECURSIVE TextLen(_)
TextLen(text) ==
    IF text = <<>> THEN 0 ELSE text[1].len + text[1].gap + TextLen(Tail(text))

\* max(1, len(text) // 4)
estimate_tokens(text) == IF TextLen(text) \div 4 > 1 THEN TextLen(text) \div 4 ELSE 1

\* sep.join(parts) of non-empty texts, sep of gap characters
RECURSIVE Join(_, _)
Join(parts, gap) ==
    IF parts = <<>> THEN <<>>
    ELSE IF Len(parts) = 1 THEN parts[1]
    ELSE parts[1] \o [Join(Tail(parts), gap) EXCEPT ![1].gap = gap]

\* re.split(r'(?<=[.!?])\s+', text): the sentences, each a text of its own
_sentences(text) == [i \in 1..Len(text) |-> << [text[i] EXCEPT !.gap = 0] >>]

\* sum(estimate_tokens(s) for s in acc)
RECURSIVE SumTokens(_)
SumTokens(acc) ==
    IF acc = <<>> THEN 0 ELSE estimate_tokens(acc[1]) + SumTokens(Tail(acc))

\* len(chunk_text.split())
RECURSIVE Words(_)
Words(text) == IF text = <<>> THEN 0 ELSE text[1].words + Words(Tail(text))

\* lines 149-156: the sentences kept as overlap, taken from the end of acc
RECURSIVE Overlap(_, _, _)
Overlap(acc, overlap_tks, overlap_tokens) ==
    IF acc = <<>> THEN <<>>
    ELSE LET s == acc[Len(acc)]
         IN  IF overlap_tks + estimate_tokens(s) <= overlap_tokens
             THEN Append(Overlap(SubSeq(acc, 1, Len(acc) - 1),
                                 overlap_tks + estimate_tokens(s), overlap_tokens), s)
             ELSE <<>>

\* lines 144-175: one round of the sentence loop of build_children; st holds
\* chunks, acc, acc_tokens and seq
SentenceStep(st, sent, policy, parent) ==
    IF st.acc_tokens + estimate_tokens(sent) > policy.hard_max_tokens /\ st.acc # <<>>
    THEN LET chunk_text == Join(st.acc, 1)
             overlap == Overlap(st.acc, 0, policy.overlap_tokens)
         IN  [chunks |-> Append(st.chunks, [text |-> chunk_text, start |-> st.seq,
                                            end |-> st.seq + Len(st.acc) - 1]),
              acc |-> overlap, acc_tokens |-> SumTokens(overlap),
              seq |-> st.seq + Words(chunk_text)]
    ELSE LET acc == Append(st.acc, sent)
             acc_tokens == st.acc_tokens + estimate_tokens(sent)
             overlap == Overlap(acc, 0, policy.overlap_tokens)
         IN  IF acc_tokens >= policy.target_tokens
             THEN [chunks |-> Append(st.chunks, [text |-> Join(acc, 1),
                                                 start |-> parent.seq_start,
                                                 end |-> parent.seq_end]),
                   acc |-> overlap, acc_tokens |-> SumTokens(overlap), seq |-> st.seq]
             ELSE [st EXCEPT !.acc = acc, !.acc_tokens = acc_tokens]

\* lines 140-178: the chunks (text, start, end) before the merge
RECURSIVE SentenceLoop(_, _, _, _)
SentenceLoop(sentences, n, policy, parent) ==
    IF n = 0 THEN [chunks |-> <<>>, acc |-> <<>>, acc_tokens |-> 0, seq |-> 0]
    ELSE SentenceStep(SentenceLoop(sentences, n - 1, policy, parent), sentences[n],
                      policy, parent)

\* lines 40-56 of _merge_small_chunks: the loop over the first n chunks
RECURSIVE MergeLoop(_, _, _, _)
MergeLoop(chunks, n, min_tokens, max_tokens) ==
    IF n = 0
    THEN [result |-> <<>>, acc_text |-> <<>>, acc_start |-> chunks[1].start,
          acc_end |-> chunks[1].end]
    ELSE LET st == MergeLoop(chunks, n - 1, min_tokens, max_tokens)
             c == chunks[n]
         IN  IF /\ st.acc_text # <<>>
                /\ estimate_tokens(st.acc_text) + estimate_tokens(c.text) <= max_tokens
                /\ \/ estimate_tokens(st.acc_text) < min_tokens
                   \/ estimate_tokens(c.text) < min_tokens
             THEN [st EXCEPT !.acc_text = Join(<<st.acc_text, c.text>>, 1),
                             !.acc_end = c.end]
             ELSE [result |-> IF st.acc_text # <<>>
                              THEN Append(st.result,
                                          [text |-> st.acc_text, start |-> st.acc_start,
                                           end |-> st.acc_end])
                              ELSE st.result,
                   acc_text |-> c.text, acc_start |-> c.start, acc_end |-> c.end]

\* a post-pass that merges nothing
_merge_nothing(chunks, min_tokens, max_tokens) == chunks

_merge_small_chunks(chunks, min_tokens, max_tokens) ==
    IF chunks = <<>> THEN <<>>
    ELSE LET st == MergeLoop(chunks, Len(chunks), min_tokens, max_tokens)
         IN  IF st.acc_text # <<>>
             THEN Append(st.result, [text |-> st.acc_text, start |-> st.acc_start,
                                     end |-> st.acc_end])
             ELSE st.result

\* a child that is of type text whatever it holds
ChildChunkAsText(parent, chunk_type, text, start, end, policy_name, signals) ==
    [parent_id |-> parent.parent_id, chunk_type |-> "text", chunk_text |-> text,
     embedding_text |-> text, seq_start |-> start, seq_end |-> end, loc |-> parent.loc,
     chunk_policy |-> policy_name, boundary_signals |-> signals,
     policy_version |-> "1.0"]

\* ChildChunk(...); boundary_signals is a dict, given as the sequence of its items
ChildChunk(parent, chunk_type, text, start, end, policy_name, signals) ==
    [parent_id |-> parent.parent_id, chunk_type |-> chunk_type, chunk_text |-> text,
     embedding_text |-> text, seq_start |-> start, seq_end |-> end, loc |-> parent.loc,
     chunk_policy |-> policy_name, boundary_signals |-> signals,
     policy_version |-> "1.0"]

\* StructureFixedChunkingPolicy(target_tokens, overlap_tokens, hard_max_tokens)
\*     .build_children(parent)
StructureFixed_build_children(policy, parent) ==
    LET tables == SelectSeq(parent.blocks, LAMBDA b : b.type = "table")
        text_blocks == SelectSeq(parent.blocks, LAMBDA b : b.type = "text")
        text == Join([i \in 1..Len(text_blocks) |-> text_blocks[i].content], 2)
        sentences == _sentences(text)
        st == SentenceLoop(sentences, Len(sentences), policy, parent)
        chunks == IF st.acc # <<>>
                  THEN Append(st.chunks, [text |-> Join(st.acc, 1),
                                          start |-> parent.seq_start,
                                          end |-> parent.seq_end])
                  ELSE st.chunks
        merged == _merge_small_chunks(chunks, 50, policy.hard_max_tokens)
    IN  [i \in 1..Len(tables) |->
            ChildChunk(parent, "table", tables[i].content, parent.seq_start,
                       parent.seq_end, "structure_fixed",
                       << <<"reason", "table_block">>, <<"policy_version", "1.0">> >>)]
        \o (IF text = <<>> THEN <<>>
            ELSE [i \in 1..Len(merged) |->
                    ChildChunk(parent, "text", merged[i].text, merged[i].start,
                               merged[i].end, "structure_fixed",
                               << <<"reason", "structure_fixed">>,
                                  <<"policy_version", "1.0">> >>)])

\* the paragraphs of a parent: a table's content, and the parts of a text
\* block's content between "\n\n"
RECURSIVE SplitParagraphs(_)
SplitParagraphs(text) ==
    IF text = <<>> THEN <<>>
    ELSE LET rest == SplitParagraphs(SubSeq(text, 1, Len(text) - 1))
             last == text[Len(text)]
         IN  IF Len(text) = 1 \/ last.gap = 2
             THEN Append(rest, << [last EXCEPT !.gap = 0] >>)
             ELSE [rest EXCEPT ![Len(rest)] = Append(@, last)]

RECURSIVE Paragraphs(_)
Paragraphs(blocks) ==
    IF blocks = <<>> THEN <<>>
    ELSE (IF blocks[1].type = "table" THEN << blocks[1].content >>
          ELSE IF blocks[1].type = "text" THEN SplitParagraphs(blocks[1].content)
          ELSE <<>>)
         \o Paragraphs(Tail(blocks))

\* embedder.embed(paragraphs): the vector of a paragraph is a function of its
\* text, here of the id of its first sentence.  The similarities of the three
\* vectors are 0.6, 0.8 and 0, which the code's float arithmetic gives exactly
ParagraphVector(p) ==
    IF p[1].id = 1 THEN <<3, 4>> ELSE IF p[1].id = 2 THEN <<1, 0>> ELSE <<0, 1>>

\* a comparison that also splits at a similarity equal to the threshold
SimBelowOrEqual(a, b, threshold) ==
    LET sim == _cosine_similarity(a, b)
    IN  sim.d <= 0 \/ sim.d * sim.d * 10000 <= threshold * threshold * sim.n

\* _cosine_sim(a, b) < threshold, for a threshold given in hundredths
SimBelow(a, b, threshold) ==
    LET sim == _cosine_similarity(a, b)
    IN  sim.d < 0 \/ sim.d * sim.d * 10000 < threshold * threshold * sim.n

\* lines 81-95 of SemanticChunkingPolicy.build_children: the groups after the
\* first n paragraphs
RECURSIVE GroupLoop(_, _, _)
GroupLoop(paragraphs, n, policy) ==
    IF n = 1 THEN [chunks |-> <<>>, current |-> << paragraphs[1] >>]
    ELSE LET st == GroupLoop(paragraphs, n - 1, policy)
             split == /\ SimBelow(ParagraphVector(paragraphs[n - 1]),
                                  ParagraphVector(paragraphs[n]), policy.threshold)
                      /\ st.current # <<>>
             chunks == IF split THEN Append(st.chunks, st.current) ELSE st.chunks
             current == IF split THEN << paragraphs[n] >>
                        ELSE Append(st.current, paragraphs[n])
         IN  IF SumTokens(current) > policy.hard_max_tokens /\ current # <<>>
             THEN [chunks |-> Append(chunks, current), current |-> <<>>]
             ELSE [chunks |-> chunks, current |-> current]

StructureFixedDefaults ==
    [target_tokens |-> 280, overlap_tokens |-> 60, hard_max_tokens |-> 380]

\* a delegation whose synthetic parent gets an id of its own
RECURSIVE SemanticChildrenNewParent(_, _, _)
SemanticChildrenNewParent(groups, policy, parent) ==
    IF groups = <<>> THEN <<>>
    ELSE LET text == Join(groups[1], 2)
             signals == << <<"reason", "semantic">>,
                           <<"threshold", ToString(policy.threshold)>> >>
         IN  (IF estimate_tokens(text) > policy.hard_max_tokens
              THEN StructureFixed_build_children(
                       [StructureFixedDefaults EXCEPT
                            !.hard_max_tokens = policy.hard_max_tokens],
                       [parent EXCEPT !.blocks = << [type |-> "text", content |-> text] >>,
                                      !.parent_id = <<"parent", 0>>])
              ELSE << ChildChunk(parent, "text", text, parent.seq_start, parent.seq_end,
                                 "semantic", signals) >>)
             \o SemanticChildrenNewParent(Tail(groups), policy, parent)

\* SemanticChunkingPolicy(threshold, hard_max_tokens).build_children(parent)
RECURSIVE SemanticChildren(_, _, _)
SemanticChildren(groups, policy, parent) ==
    IF groups = <<>> THEN <<>>
    ELSE LET text == Join(groups[1], 2)
             signals == << <<"reason", "semantic">>,
                           <<"threshold", ToString(policy.threshold)>> >>
         IN  (IF estimate_tokens(text) > policy.hard_max_tokens
              THEN StructureFixed_build_children(
                       [StructureFixedDefaults EXCEPT
                            !.hard_max_tokens = policy.hard_max_tokens],
                       [parent EXCEPT !.blocks = << [type |-> "text", content |-> text] >>])
              ELSE << ChildChunk(parent, "text", text, parent.seq_start, parent.seq_end,
                                 "semantic", signals) >>)
             \o SemanticChildren(Tail(groups), policy, parent)

Semantic_build_children(policy, parent) ==
    LET paragraphs == Paragraphs(parent.blocks)
        st == GroupLoop(paragraphs, Len(paragraphs), policy)
    IN  IF paragraphs = <<>> THEN <<>>
        ELSE IF Len(paragraphs) = 1
        THEN IF estimate_tokens(paragraphs[1]) > policy.hard_max_tokens
             THEN StructureFixed_build_children(
                      [StructureFixedDefaults EXCEPT
                           !.hard_max_tokens = policy.hard_max_tokens], parent)
             ELSE << ChildChunk(parent, "text", paragraphs[1], parent.seq_start,
                                parent.seq_end, "semantic",
                                << <<"reason", "single_paragraph">>,
                                   <<"threshold", ToString(policy.threshold)>> >>) >>
        ELSE SemanticChildren(IF st.current # <<>> THEN Append(st.chunks, st.current)
                              ELSE st.chunks,
                              policy, parent)

\* HybridChunkingPolicy(semantic_enabled_min_tokens, semantic_threshold)
\*     .build_children(parent)
Hybrid_build_children(policy, parent) ==
    IF estimate_tokens(parent.parent_text) >= policy.semantic_enabled_min_tokens
    THEN Semantic_build_children([threshold |-> policy.semantic_threshold,
                                  hard_max_tokens |-> 380], parent)
    ELSE StructureFixed_build_children(StructureFixedDefaults, parent)

\* orchestrator._get_chunking_policy(): the policy built for a policy name
_get_chunking_policy(settings, policy_name) ==
    IF policy_name = "structure_fixed"
    THEN [name |-> "structure_fixed", target_tokens |-> settings.target_tokens,
          overlap_tokens |-> settings.overlap_tokens,
          hard_max_tokens |-> settings.hard_max_tokens]
    ELSE IF policy_name = "semantic"
    THEN [name |-> "semantic", threshold |-> settings.semantic_threshold,
          hard_max_tokens |-> 380]
    ELSE [name |-> "hybrid",
          semantic_enabled_min_tokens |-> settings.semantic_enabled_min_tokens,
          semantic_threshold |-> settings.semantic_threshold]

\* policy.build_children(parent)
build_children(policy, parent) ==
    IF policy.name = "structure_fixed" THEN StructureFixed_build_children(policy, parent)
    ELSE IF policy.name = "semantic" THEN Semantic_build_children(policy, parent)
    ELSE Hybrid_build_children(policy, parent)

\* Settings: the defaults of config.py, the parameters of tests/test_chunking.py
\* with a smaller hard maximum, and a small budget; the threshold in
\* hundredths: the default 0.72, and 0.6, the similarity of two of the vectors
ChunkSettings ==
    { [chunking_policy |-> name, target_tokens |-> p[1], overlap_tokens |-> p[2],
       hard_max_tokens |-> p[3], semantic_threshold |-> threshold,
       semantic_enabled_min_tokens |-> 600] :
        name \in {"structure_fixed", "semantic", "hybrid"},
        p \in { <<280, 60, 380>>, <<50, 10, 100>>, <<2, 1, 2>> },
        threshold \in {72, 60} }

\* the parents given to build_children: up to MaxSentences sentences of 1, 200
\* or 400 estimated tokens in one text block, alone or beside a table, a
\* second text block or two tables
MaxSentences == 3

ChunkParents ==
    LET sentence(id, len, gap) ==
            [id |-> id, len |-> len, words |-> len \div 5, gap |-> gap]
        kinds == { <<id, len>> : id \in 1..2, len \in {7, 800, 1600} }
        texts(k) == { [i \in 1..k |-> sentence(f[i][1], f[i][2],
                                               IF i = 1 THEN 0 ELSE g[i])] :
                        f \in [1..k -> kinds], g \in [1..k -> {1, 2}] }
        contents == UNION { texts(k) : k \in 1..MaxSentences }
        short == texts(1) \cup { t \in texts(2) : t[2].len = 800 }
        tables == { << sentence(3, len, 0) >> : len \in {40, 1600} }
        text(c) == [type |-> "text", content |-> c]
        table(c) == [type |-> "table", content |-> c]
        blocks == { << text(c) >> : c \in contents }
                  \cup { << table(t), text(c) >> : t \in tables, c \in short }
                  \cup { << text(c), table(t) >> : t \in tables, c \in short }
                  \cup { << text(c), text(d) >> : c \in texts(1), d \in texts(1) }
                  \cup { << table(t), text(c), table(u) >> :
                            t \in tables, u \in tables, c \in texts(1) }
                  \cup { << table(t) >> : t \in tables }
                  \cup { << [type |-> "image", content |-> <<>>] >> }
        contentsOf(bs) == SelectSeq(bs, LAMBDA b : b.type # "image")
    IN  { [parent_id |-> "par1", loc |-> "loc", seq_start |-> s,
           seq_end |-> s + Len(bs) - 1, blocks |-> bs,
           parent_text |-> Join([i \in 1..Len(contentsOf(bs)) |->
                                     contentsOf(bs)[i].content], 2)] :
            bs \in blocks, s \in {0, 2} }

ChunkInit ==
    /\ vsStore = <<>>
    /\ vsLast = [op |-> "new"]
    /\ vsCalls = 0
    /\ disk = NoFile
    /\ IngInit
    /\ chunking \in { [pc |-> "call", settings |-> s, parent |-> p, children |-> <<>>] :
                        s \in ChunkSettings, p \in ChunkParents }

\* children = policy.build_children(parent) for the configured policy
BuildChildren ==
    /\ chunking.pc = "call"
    /\ chunking' =
          [chunking EXCEPT
              !.pc = "done",
              !.children = build_children(
                  _get_chunking_policy(chunking.settings,
                                       chunking.settings.chunking_policy),
                  chunking.parent)]
    /\ UNCHANGED <<jobs, vsVars, disk, dbVars, run, nCalls, srch, committed, succeeded>>

ChunkSpec == ChunkInit /\ [][BuildChildren]_vars

(***************************************************************************)
(* Properties of build_children (checked under ChunkSpec).                 *)
(***************************************************************************)
\* C17: every child of chunk_type text or table that build_children of the
\* configured policy produces has estimate_tokens(chunk_text) <= the configured
\* hard_max_tokens
C17_ChunkWithinHardMax ==
    chunking.pc = "done" =>
        \A i \in 1..Len(chunking.children) :
            chunking.children[i].chunk_type \in {"text", "table"}
            => estimate_tokens(chunking.children[i].chunk_text)
                   <= chunking.settings.hard_max_tokens

\* the sentences of a text, without their place in it
SentencesOf(text) == [i \in 1..Len(text) |-> [text[i] EXCEPT !.gap = 0]]

\* the sentences of the text blocks of a parent, in order
ParentSentences(parent) ==
    LET text_blocks == SelectSeq(parent.blocks, LAMBDA b : b.type = "text")
    IN  SentencesOf(Join([i \in 1..Len(text_blocks) |-> text_blocks[i].content], 2))

\* the chunks, each without the sentences it repeats from the end of the chunk
\* before it, give the sentences when concatenated
RECURSIVE Reconstructs(_, _, _)
Reconstructs(chunks, prev, sentences) ==
    IF chunks = <<>> THEN sentences = <<>>
    ELSE LET c == chunks[1]
         IN  \E o \in 0..MinNat(Len(c), Len(prev)) :
                /\ SubSeq(c, 1, o) = SubSeq(prev, Len(prev) - o + 1, Len(prev))
                /\ Len(c) - o <= Len(sentences)
                /\ SubSeq(c, o + 1, Len(c)) = SubSeq(sentences, 1, Len(c) - o)
                /\ Reconstructs(Tail(chunks), c,
                                SubSeq(sentences, Len(c) - o + 1, Len(sentences)))

\* C18: StructureFixed.build_children loses no sentence and keeps their order:
\* the text chunks, concatenated without the overlap repeated from the previous
\* chunk, give the parent's sentence sequence, and every sentence of the parent
\* is in at least one chunk
C18_SentencesPreserved ==
    (chunking.pc = "done" /\ chunking.settings.chunking_policy = "structure_fixed") =>
        LET texts == SelectSeq(chunking.children, LAMBDA c : c.chunk_type = "text")
            chunks == [i \in 1..Len(texts) |-> SentencesOf(texts[i].chunk_text)]
            sentences == ParentSentences(chunking.parent)
        IN  /\ Reconstructs(chunks, <<>>, sentences)
            /\ \A k \in 1..Len(sentences) :
                  \E i \in 1..Len(chunks) : \E j \in 1..Len(chunks[i]) :
                      chunks[i][j] = sentences[k]

\* C19: for consecutive children a, b of one parent, a.seq_start <= b.seq_start
\* and a.seq_end <= b.seq_end
C19_SeqRangesNonDecreasing ==
    chunking.pc = "done" =>
        \A i \in 1..(Len(chunking.children) - 1) :
            /\ chunking.children[i].seq_start <= chunking.children[i + 1].seq_start
            /\ chunking.children[i].seq_end <= chunking.children[i + 1].seq_end

\* C20: Hybrid.build_children returns the children of StructureFixed.build_children
\* on a parent below semantic_enabled_min_tokens and those of
\* Semantic.build_children on a parent at or above it
C20_HybridDelegates ==
    (chunking.pc = "done" /\ chunking.settings.chunking_policy = "hybrid") =>
        chunking.children =
            build_children(
                _get_chunking_policy(
                    chunking.settings,
                    IF estimate_tokens(chunking.parent.parent_text)
                           < chunking.settings.semantic_enabled_min_tokens
                    THEN "structure_fixed" ELSE "semantic"),
                chunking.parent)

(***************************************************************************)
(* Further properties of build_children (checked under ChunkSpec).         *)
(***************************************************************************)
\* the number of paragraphs in the first n chunks
RECURSIVE ParagraphsUpTo(_, _)
ParagraphsUpTo(children, n) ==
    IF n = 0 THEN 0
    ELSE ParagraphsUpTo(children, n - 1) + Len(SplitParagraphs(children[n].chunk_text))

\* the semantic policy ran on at least two paragraphs and no group reached
\* the hard maximum of the policy: every child is a group of the policy itself
SemanticWithinHardMax ==
    /\ chunking.pc = "done"
    /\ chunking.settings.chunking_policy = "semantic"
    /\ Len(Paragraphs(chunking.parent.blocks)) >= 2
    /\ \A i \in 1..Len(chunking.children) :
          /\ chunking.children[i].chunk_policy = "semantic"
          /\ estimate_tokens(chunking.children[i].chunk_text)
                 < _get_chunking_policy(chunking.settings, "semantic").hard_max_tokens

\* C21: Semantic.build_children on at least two paragraphs with no group
\* reaching hard_max_tokens: the chunks hold the paragraphs in order, and two
\* adjacent paragraphs are in the same chunk if and only if the cosine
\* similarity of their vectors is not below the threshold (equal does not split)
C21_SemanticSplitAtThreshold ==
    SemanticWithinHardMax =>
        LET paragraphs == Paragraphs(chunking.parent.blocks)
            children == chunking.children
            chunkOf(k) == CHOOSE i \in 1..Len(children) :
                              /\ ParagraphsUpTo(children, i - 1) < k
                              /\ k <= ParagraphsUpTo(children, i)
            threshold == chunking.settings.semantic_threshold
            \* the similarity d / sqrt(n) of paragraphs k and k + 1 is at least
            \* threshold / 100
            similar(k) ==
                LET sim == _cosine_similarity(ParagraphVector(paragraphs[k]),
                                              ParagraphVector(paragraphs[k + 1]))
                IN  sim.d >= 0 /\ sim.d * sim.d * 10000 >= threshold * threshold * sim.n
        IN  /\ ParagraphsUpTo(children, Len(children)) = Len(paragraphs)
            /\ \A i \in 1..Len(children) :
                  SplitParagraphs(children[i].chunk_text)
                      = SubSeq(paragraphs, ParagraphsUpTo(children, i - 1) + 1,
                               ParagraphsUpTo(children, i))
            /\ \A k \in 1..(Len(paragraphs) - 1) :
                  (chunkOf(k) = chunkOf(k + 1)) <=> similar(k)

\* a table and two paragraphs: the table's similarity to the next paragraph is
\* below the threshold and splits, the two paragraphs' similarity equals the
\* threshold and does not
C21_Witness ==
    /\ SemanticWithinHardMax
    /\ Len(Paragraphs(chunking.parent.blocks)) = 3
    /\ Len(chunking.children) = 2
    /\ LET paragraphs == Paragraphs(chunking.parent.blocks)
           sim == _cosine_similarity(ParagraphVector(paragraphs[2]),
                                     ParagraphVector(paragraphs[3]))
       IN  /\ sim.d > 0
           /\ sim.d * sim.d * 10000
                  = chunking.settings.semantic_threshold
                        * chunking.settings.semantic_threshold * sim.n
           /\ Len(SplitParagraphs(chunking.children[2].chunk_text)) = 2

\* the children of one chunk_type
ChildrenOfType(chunk_type) ==
    SelectSeq(chunking.children, LAMBDA c : c.chunk_type = chunk_type)

ChunksBeforeMerge ==
    LET policy == _get_chunking_policy(chunking.settings, "structure_fixed")
        text_blocks == SelectSeq(chunking.parent.blocks, LAMBDA b : b.type = "text")
        text == Join([i \in 1..Len(text_blocks) |-> text_blocks[i].content], 2)
        st == SentenceLoop(_sentences(text), Len(text), policy, chunking.parent)
    IN  IF st.acc # <<>>
        THEN Append(st.chunks, [text |-> Join(st.acc, 1),
                                start |-> chunking.parent.seq_start,
                                end |-> chunking.parent.seq_end])
        ELSE st.chunks

\* C26: after the merge post-pass of StructureFixed.build_children no two
\* adjacent text chunks are left with one of them below 50 estimated tokens and
\* the sum of their estimated tokens within hard_max_tokens; and every emitted
\* chunk is a run of the chunks before the merge, each joined to the ones
\* before it only while the sum of the two estimates is within hard_max_tokens
C26_MergePostPass ==
    (chunking.pc = "done" /\ chunking.settings.chunking_policy = "structure_fixed") =>
        LET texts == ChildrenOfType("text")
            before == ChunksBeforeMerge
            max_tokens == chunking.settings.hard_max_tokens
            tokens(i) == estimate_tokens(texts[i].chunk_text)
            \* emitted chunk i is the chunks a..b before the merge
            isRun(i, a, b) ==
                /\ texts[i].chunk_text
                       = Join([k \in 1..(b - a + 1) |-> before[a + k - 1].text], 1)
                /\ \A k \in (a + 1)..b :
                      estimate_tokens(Join([j \in 1..(k - a) |-> before[a + j - 1].text], 1))
                          + estimate_tokens(before[k].text) <= max_tokens
        IN  /\ \A i \in 1..(Len(texts) - 1) :
                  ~ /\ tokens(i) < 50 \/ tokens(i + 1) < 50
                    /\ tokens(i) + tokens(i + 1) <= max_tokens
            /\ \E ends \in [0..Len(texts) -> 0..Len(before)] :
                  /\ ends[0] = 0
                  /\ ends[Len(texts)] = Len(before)
                  /\ \A i \in 1..Len(texts) :
                        /\ ends[i - 1] < ends[i]
                        /\ isRun(i, ends[i - 1] + 1, ends[i])

\* a merge happened and a pair was left apart
C26_Witness ==
    /\ chunking.pc = "done"
    /\ chunking.settings.chunking_policy = "structure_fixed"
    /\ Len(ChildrenOfType("text")) >= 2
    /\ Len(ChunksBeforeMerge) > Len(ChildrenOfType("text"))

(***************************************************************************)
(* ingest_file with an embedding capability that breaks its contract: the  *)
(* list it returns has one vector too few or one too many.  Nothing in     *)
(* ingest_file or in the OpenAI provider (embedding_openai.py, lines       *)
(* 74-76) compares its length with the number of texts.                    *)
(***************************************************************************)
\* vectors = embedder.embed(texts) of any length near len(texts); zip then
\* pairs the chunks with the vectors there are (lines 161-177)
EmbedMalformed(r) ==
    /\ run[r].pc = "embed"
    /\ LET texts == [i \in 1..Len(run[r].chunks) |-> run[r].chunks[i].embedding_text]
       IN  \E vectors \in { embed(texts), SubSeq(embed(texts), 1, Len(texts) - 1),
                            Append(embed(texts), <<1, 1>>) } :
              run' = [run EXCEPT ![r].pc = "save_open",
                         ![r].store = upsert(run[r].store,
                                             VectorRecords(run[r], vectors)),
                         ![r].nVectors = Len(vectors)]
    /\ UNCHANGED <<jobs, chunking, vsVars, disk, dbVars, nCalls, srch, committed, succeeded>>

\* one worker runs ingest_file with such a capability
MalformedNext ==
    \/ Call(1)
    \/ Check(1)
    \/ ProjectQuery(1)
    \/ ProjectCommit(1)
    \/ ParseAndChunk(1)
    \/ FileQuery(1)
    \/ VsNew(1)
    \/ EmbedMalformed(1)
    \/ SaveOpen(1)
    \/ SaveWrite(1)
    \/ Commit(1)
    \/ Return(1)

MalformedSpec == Init /\ [][MalformedNext]_vars

\* C24: when embed returns a list whose length differs from the number of
\* chunk texts, ingest_file returns an error and records nothing: no vector
\* record, no Chunk row and no idempotency record of the call
C24_MalformedEmbeddingAborts ==
    \A r \in Workers :
        (run[r].pc = "done" /\ run[r].nVectors >= 0
            /\ run[r].nVectors # Len(run[r].chunks))
        => /\ Failed(run[r])
           /\ RunChunkIds(run[r]) \cap StoreChunkIds(_load(disk)) = {}
           /\ \A row \in dbChunks : row.chunk_id \notin RunChunkIds(run[r])
           /\ \A row \in ilog : row.file_id # run[r].file_id

(***************************************************************************)
(* The idempotency key after a failed run (checked under Spec).            *)
(***************************************************************************)
\* C30: when ingest_file has returned an error for (project, bytes,
\* index_version) and no run has succeeded for that triple, no idempotency
\* record of the triple exists; a later call for the triple, made while still
\* no run has succeeded for it, passes the idempotency check and goes on with
\* the pipeline instead of being skipped
C30_FailedRunKeepsKeyFree ==
    /\ [](\A r \in Workers :
            (Failed(run[r]) /\ RunKey(run[r]) \notin succeeded)
            => ~LogHasKey(run[r]))
    /\ [][\A r \in Workers :
            (/\ run[r].pc = "check"
             /\ run'[r].pc # "check"
             /\ run[r].priorFailure
             /\ RunKey(run[r]) \notin succeeded)
            => run'[r].pc = "project"]_vars

\* a call made after a failed call for the same triple has run the whole
\* pipeline and succeeded, while the failed call had got as far as the commit
C30_Witness ==
    \E r \in Workers : \E w \in Workers \ {r} :
        /\ run[r].priorFailure
        /\ Succeeded(run[r])
        /\ Len(run[r].chunks) > 0
        /\ Failed(run[w])
        /\ run[w].raised = "commit"
        /\ RunKey(run[w]) = RunKey(run[r])

(***************************************************************************)
(* The index job runner (services/indexing/job_runner.py).  start_index_job *)
(* adds a pending job and submits _run_index_job to the pool of MaxWorkers *)
(* threads.  Each project has one uploaded file; ingest_file is one step   *)
(* that skips, fails, or upserts the file's vector record under the job's  *)
(* index_version.  A database statement or commit may raise; a commit that *)
(* raises changes no row.                                                  *)
(***************************************************************************)
\* number of index jobs started in one behaviour
MaxJobs == 2

\* index_version is a request field; None or "" gives f"v{int(time.time())}",
\* one of these labels as well
JobVersions == { <<"b">>, <<"b", ":", "c">> }

\* the vector record that ingest_file upserts for the file of job j
JobRecord(j) ==
    LET job == jobs.table[j]
    IN  [VSRecord([project_id |-> job.project_id, index_version |-> job.index_version],
                  <<ToString(j)>>,
                  IF job.project_id = <<"a">> THEN <<1, 0>> ELSE <<0, 1>>, FALSE)
            EXCEPT !.doc_hash = IF job.project_id = <<"a">> THEN "h1" ELSE "h2"]

\* the thread of job j goes to pc, with the job's committed status
JobGoes(j, pc, status) ==
    jobs' = [jobs EXCEPT !.table[j].pc = pc, !.table[j].status = status]

\* start_index_job(project_id, file_ids=None, index_version) (lines 123-145)
start_index_job ==
    /\ Len(jobs.table) < MaxJobs
    /\ \E p \in JobProjects, v \in JobVersions :
        jobs' = [jobs EXCEPT !.table =
                    Append(@, [project_id |-> p, index_version |-> v,
                               status |-> "pending", pc |-> "submitted"])]
    /\ UNCHANGED <<chunking, vsVars, disk, dbVars, run, nCalls, srch, committed,
                   succeeded>>

\* a free thread takes the job: status running is committed, or the update
\* raises and _run_index_job returns (lines 23-33)
JobSetRunning(j) ==
    /\ jobs.table[j].pc = "submitted"
    /\ Cardinality({ k \in 1..Len(jobs.table) :
                         jobs.table[k].pc \notin {"submitted", "exited"} }) < MaxWorkers
    /\ \/ JobGoes(j, "settings", "running")
       \/ JobGoes(j, "exited", jobs.table[j].status)
    /\ UNCHANGED <<chunking, vsVars, disk, dbVars, run, nCalls, srch, committed,
                   succeeded>>

\* get_settings() and files_dir.mkdir(), outside any try: an exception ends the
\* thread (lines 35-37)
JobSettings(j) ==
    /\ jobs.table[j].pc = "settings"
    /\ \/ JobGoes(j, "files", jobs.table[j].status)
       \/ JobGoes(j, "exited", jobs.table[j].status)
    /\ UNCHANGED <<chunking, vsVars, disk, dbVars, run, nCalls, srch, committed,
                   succeeded>>

\* files = db.query(File)...all(), which may raise (lines 50-56)
JobFiles(j) ==
    /\ jobs.table[j].pc = "files"
    /\ \/ JobGoes(j, "ingest", jobs.table[j].status)
       \/ JobGoes(j, "handler", jobs.table[j].status)
    /\ UNCHANGED <<chunking, vsVars, disk, dbVars, run, nCalls, srch, committed,
                   succeeded>>

\* the loop over the files: the file is missing on disk, or reading it raises,
\* or ingest_file skips it (it is already ingested under the project and
\* index_version of the job), ingests it, or returns an error, after which the
\* job is set to failed: that commit succeeds or raises (lines 58-89)
JobIngest(j) ==
    /\ jobs.table[j].pc = "ingest"
    /\ LET skipped == \E i \in 1..Len(vsStore) :
                          /\ vsStore[i].rec.project_id = jobs.table[j].project_id
                          /\ vsStore[i].rec.index_version = jobs.table[j].index_version
                          /\ vsStore[i].rec.doc_hash = JobRecord(j).doc_hash
       IN  \/ /\ JobGoes(j, "complete", jobs.table[j].status)
              /\ UNCHANGED vsStore
           \/ /\ JobGoes(j, "handler", jobs.table[j].status)
              /\ UNCHANGED vsStore
           \/ /\ ~skipped
              /\ vsStore' = upsert(vsStore, << JobRecord(j) >>)
              /\ JobGoes(j, "complete", jobs.table[j].status)
           \/ /\ ~skipped
              /\ JobGoes(j, "exited", "failed")
              /\ UNCHANGED vsStore
    /\ UNCHANGED <<chunking, vsLast, vsCalls, disk, dbVars, run, nCalls, srch, committed,
                   succeeded>>

\* status completed and the project's active_index_version, committed together,
\* or the commit raises (lines 91-107)
JobComplete(j) ==
    /\ jobs.table[j].pc = "complete"
    /\ \/ jobs' = [jobs EXCEPT !.table[j].pc = "exited",
                               !.table[j].status = "completed",
                               !.active[jobs.table[j].project_id] =
                                   jobs.table[j].index_version]
       \/ JobGoes(j, "handler", jobs.table[j].status)
    /\ UNCHANGED <<chunking, vsVars, disk, dbVars, run, nCalls, srch, committed,
                   succeeded>>

\* except Exception: status failed is committed, or that raises too
\* (lines 108-115)
JobHandler(j) ==
    /\ jobs.table[j].pc = "handler"
    /\ \/ JobGoes(j, "exited", "failed")
       \/ JobGoes(j, "exited", jobs.table[j].status)
    /\ UNCHANGED <<chunking, vsVars, disk, dbVars, run, nCalls, srch, committed,
                   succeeded>>

\* search(project_id, query, index_version=None): the active version of the
\* project, no hit without one, else the recall over the vector store
\* (search.py, lines 77-90 and 108-117)
JobSearch ==
    /\ \E p \in JobProjects :
        jobs' = [jobs EXCEPT
                    !.project_id = p,
                    !.hits = IF Falsy(jobs.active[p]) THEN <<>>
                             ELSE search(vsStore, <<1, 1>>, RecallTopK, p,
                                         jobs.active[p], <<>>)]
    /\ UNCHANGED <<chunking, vsVars, disk, dbVars, run, nCalls, srch, committed,
                   succeeded>>

_run_index_job(j) ==
    \/ JobSetRunning(j)
    \/ JobSettings(j)
    \/ JobFiles(j)
    \/ JobIngest(j)
    \/ JobComplete(j)
    \/ JobHandler(j)

JobNext ==
    \/ start_index_job
    \/ \E j \in 1..Len(jobs.table) : _run_index_job(j)
    \/ JobSearch

JobSpec == Init /\ [][JobNext]_vars

\* the pool runs every submitted task: no thread stops while it has a step
JobFairSpec ==
    JobSpec /\ \A j \in 1..MaxJobs : WF_vars(j <= Len(jobs.table) /\ _run_index_job(j))

(***************************************************************************)
(* Properties of the job runner.                                           *)
(***************************************************************************)
\* some job of the project with that index_version is completed
CompletedVersion(project_id, index_version) ==
    \E j \in 1..Len(jobs.table) :
        /\ jobs.table[j].project_id = project_id
        /\ jobs.table[j].index_version = index_version
        /\ jobs.table[j].status = "completed"

\* C28: a project's active_index_version changes only when a job of that
\* project becomes completed, to that job's index_version; so it is unset or
\* the version of a completed job of the project, and a search without
\* index_version returns only hits of a version that has a completed job
C28_ActiveVersionOfCompletedJob ==
    /\ [][\A p \in JobProjects :
            jobs'.active[p] # jobs.active[p]
            => \E j \in 1..Len(jobs.table) :
                  /\ jobs.table[j].project_id = p
                  /\ jobs.table[j].status # "completed"
                  /\ jobs'.table[j].status = "completed"
                  /\ jobs'.active[p] = jobs.table[j].index_version]_vars
    /\ [](\A p \in JobProjects :
            jobs.active[p] # <<None>> => CompletedVersion(p, jobs.active[p]))
    /\ [](\A i \in 1..Len(jobs.hits) :
            /\ jobs.hits[i].project_id = jobs.project_id
            /\ CompletedVersion(jobs.project_id, jobs.hits[i].index_version))

\* C29: the status of a job only moves pending -> running -> completed or
\* failed and does not change once completed or failed; and every job that
\* start_index_job created is completed or failed in the end
C29_JobReachesTerminalStatus ==
    /\ [][\A j \in 1..Len(jobs.table) :
            jobs'.table[j].status # jobs.table[j].status
            => <<jobs.table[j].status, jobs'.table[j].status>>
                   \in { <<"pending", "running">>, <<"running", "completed">>,
                         <<"running", "failed">> }]_vars
    /\ \A j \in 1..MaxJobs :
          (j <= Len(jobs.table))
              ~> (j <= Len(jobs.table)
                     /\ jobs.table[j].status \in {"completed", "failed"})

(***************************************************************************)
(* The document pipeline of ingest_file: parse, build_parents, the image   *)
(* annex and build_children (orchestrator.py lines 99-121).  An optional   *)
(* field of Loc is a sequence of at most one value, <<>> standing for None.*)
(* The uuid4 id of the i-th parent is <<"parent", i>>.                     *)
(***************************************************************************)
\* number of blocks of a parsed document
MaxBlocks == 3

\* parser.parse(file_bytes, filename): the block lists of the shapes the parser
\* of the source type gives.  pdf: pages in order, on a page the text block,
\* then the images, no tables.  pptx: slides in order, on a slide the tables and
\* images, then the text block.  docx: blocks under the heading path in force,
\* which is empty only before the first heading; the images come last and all
\* carry the final heading path.  No block has blank content.
parse(source_type) ==
    LET Loc(page_num, slide_num, heading_path) ==
            [page_num |-> page_num, slide_num |-> slide_num,
             heading_path |-> heading_path]
        locs == IF source_type = "pdf" THEN { Loc(<<n>>, <<>>, <<>>) : n \in 1..2 }
                ELSE IF source_type = "pptx"
                THEN { Loc(<<>>, <<n>>, <<>>) : n \in 1..2 }
                ELSE { Loc(<<>>, <<>>, <<hp>>) :
                         hp \in { <<>>, <<"A">>, <<"B">>, <<"A", "B">> } }
        sentence(id, len) == << [id |-> id, len |-> len, words |-> len \div 5, gap |-> 0] >>
        kinds == { [type |-> "text", content |-> sentence(1, len), loc |-> l] :
                     len \in {7, 800}, l \in locs }
                 \cup { [type |-> "table", content |-> sentence(3, 40), loc |-> l] :
                          l \in locs }
                 \cup { [type |-> "image", content |-> <<>>, loc |-> l,
                         image_bytes |-> b] : l \in locs, b \in { <<1>>, <<2>> } }
        shaped(bs) ==
            \A i, j \in 1..Len(bs) : i < j =>
                IF source_type = "pdf"
                THEN /\ bs[i].loc.page_num[1] <= bs[j].loc.page_num[1]
                     /\ bs[i].loc = bs[j].loc => bs[j].type = "image"
                ELSE IF source_type = "pptx"
                THEN /\ bs[i].loc.slide_num[1] <= bs[j].loc.slide_num[1]
                     /\ bs[i].loc = bs[j].loc => bs[i].type # "text"
                ELSE /\ bs[i].type = "image" => bs[j].type = "image" /\ bs[j].loc = bs[i].loc
                     /\ bs[j].loc.heading_path = << <<>> >>
                            => bs[i].loc.heading_path = << <<>> >>
    IN  { bs \in UNION { [1..k -> kinds] : k \in 0..MaxBlocks } :
            /\ shaped(bs)
            /\ source_type = "pdf" => \A i \in 1..Len(bs) : bs[i].type # "table" }

\* _loc_key(block, source_type): x or 0, x or [] replace None
_loc_key(block, source_type) ==
    IF source_type = "pdf"
    THEN <<"page", IF block.loc.page_num = <<>> THEN 0 ELSE block.loc.page_num[1]>>
    ELSE IF source_type = "pptx"
    THEN <<"slide", IF block.loc.slide_num = <<>> THEN 0 ELSE block.loc.slide_num[1]>>
    ELSE <<"section", IF block.loc.heading_path = <<>> THEN <<>>
                      ELSE block.loc.heading_path[1]>>

\* a < b for two keys of one source type: numbers by <, tuples of strings in
\* lexicographic order, with "A" < "B"
KeyLess(a, b) ==
    LET RECURSIVE Lex(_, _)
        Lex(s, t) == IF t = <<>> THEN FALSE
                     ELSE IF s = <<>> THEN TRUE
                     ELSE IF s[1] = t[1] THEN Lex(Tail(s), Tail(t))
                     ELSE s[1] = "A" /\ t[1] = "B"
    IN  IF a[1] = "section" THEN Lex(a[2], b[2]) ELSE a[2] < b[2]

\* a sort that puts a block before the earlier blocks of the same key
RECURSIVE sorted_unstable(_, _)
sorted_unstable(blocks, source_type) ==
    IF blocks = <<>> THEN <<>>
    ELSE LET rest == sorted_unstable(SubSeq(blocks, 1, Len(blocks) - 1), source_type)
             b == blocks[Len(blocks)]
             before == Cardinality({ i \in 1..Len(rest) :
                                       KeyLess(_loc_key(rest[i], source_type),
                                               _loc_key(b, source_type)) })
         IN  SubSeq(rest, 1, before) \o <<b>> \o SubSeq(rest, before + 1, Len(rest))

\* sorted(blocks, key=lambda b: _loc_key(b, source_type)): the sort is stable, a
\* block goes after the earlier blocks whose key is not greater
RECURSIVE sorted(_, _)
sorted(blocks, source_type) ==
    IF blocks = <<>> THEN <<>>
    ELSE LET rest == sorted(SubSeq(blocks, 1, Len(blocks) - 1), source_type)
             b == blocks[Len(blocks)]
             before == Cardinality({ i \in 1..Len(rest) :
                                       ~KeyLess(_loc_key(b, source_type),
                                                _loc_key(rest[i], source_type)) })
         IN  SubSeq(rest, 1, before) \o <<b>> \o SubSeq(rest, before + 1, Len(rest))

\* groupby(sorted_blocks, key=...): the runs of consecutive blocks of one key
RECURSIVE groupby(_, _)
groupby(sorted_blocks, source_type) ==
    IF sorted_blocks = <<>> THEN <<>>
    ELSE LET rest == groupby(SubSeq(sorted_blocks, 1, Len(sorted_blocks) - 1), source_type)
             b == sorted_blocks[Len(sorted_blocks)]
         IN  IF /\ rest # <<>>
                /\ _loc_key(rest[Len(rest)][1], source_type) = _loc_key(b, source_type)
             THEN [rest EXCEPT ![Len(rest)] = Append(@, b)]
             ELSE Append(rest, <<b>>)

\* StructureFixedChunkingPolicy.build_parents(blocks, source_type), to which the
\* semantic and the hybrid policy delegate
build_parents(blocks, source_type) ==
    LET groups == groupby(sorted(blocks, source_type), source_type)
        RECURSIVE SeqAt(_)
        SeqAt(i) == IF i = 1 THEN 0 ELSE SeqAt(i - 1) + Len(groups[i - 1])
        text_parts(blist) == SelectSeq(blist, LAMBDA b : b.type \in {"text", "table"})
    IN  [i \in 1..Len(groups) |->
            [parent_id |-> <<"parent", i>>,
             parent_type |-> IF source_type = "pdf" THEN "page"
                             ELSE IF source_type = "pptx" THEN "slide" ELSE "section",
             loc |-> groups[i][1].loc,
             parent_text |-> Join([k \in 1..Len(text_parts(groups[i])) |->
                                      text_parts(groups[i])[k].content], 2),
             seq_start |-> SeqAt(i),
             seq_end |-> SeqAt(i) + Len(groups[i]) - 1,
             blocks |-> groups[i]]]

\* _loc_matches(block_loc, parent_loc): parent_loc.to_dict() leaves out the
\* fields that are None and .get() gives None for them
_loc_matches(block_loc, parent_loc) ==
    /\ block_loc.page_num # <<>> => parent_loc.page_num = block_loc.page_num
    /\ block_loc.slide_num # <<>> => parent_loc.slide_num = block_loc.slide_num
    /\ block_loc.heading_path # <<>> =>
          (IF parent_loc.heading_path = <<>> THEN <<>> ELSE parent_loc.heading_path[1])
              = block_loc.heading_path[1]

\* a match that takes the first parent whatever its loc
find_first_parent(image_block, parents) ==
    IF parents = <<>> THEN <<>> ELSE << parents[1].parent_id >>

\* find_parent_for_image(image_block, parents): the id of the first parent
\* that matches, in a sequence of one id, or <<>> for None
find_parent_for_image(image_block, parents) ==
    LET matching == { i \in 1..Len(parents) : _loc_matches(image_block.loc, parents[i].loc) }
    IN  IF matching = {} THEN <<>>
        ELSE << parents[CHOOSE i \in matching : \A k \in matching : i <= k].parent_id >>

\* process_image_blocks(image_blocks): the OCR text of the image <<1>> is blank,
\* that of the image <<2>> is not; a caption is never empty
RECURSIVE process_image_blocks(_, _)
process_image_blocks(image_blocks, settings) ==
    IF image_blocks = <<>> THEN <<>>
    ELSE LET img_block == image_blocks[Len(image_blocks)][1]
             parent_id == image_blocks[Len(image_blocks)][2]
             chunk(chunk_type, text, reason) ==
                 [parent_id |-> parent_id, chunk_type |-> chunk_type, chunk_text |-> text,
                  embedding_text |-> text, seq_start |-> 0, seq_end |-> 0,
                  loc |-> img_block.loc, chunk_policy |-> "image_pipeline",
                  boundary_signals |-> << <<"reason", reason>> >>,
                  policy_version |-> "1.0"]
             text == IF img_block.image_bytes = <<1>> THEN <<>>
                     ELSE << [id |-> 4, len |-> 12, words |-> 2, gap |-> 0] >>
         IN  process_image_blocks(SubSeq(image_blocks, 1, Len(image_blocks) - 1), settings)
             \o (IF settings.enable_ocr /\ img_block.image_bytes # <<>> /\ text # <<>>
                 THEN << chunk("image_ocr", text, "ocr") >>
                 ELSE <<>>)
             \o (IF settings.enable_vision_caption /\ img_block.image_bytes # <<>>
                 THEN << chunk("image_caption",
                               << [id |-> 5, len |-> 30, words |-> 5, gap |-> 0] >>,
                               "vision_caption") >>
                 ELSE <<>>)

\* the start of ingest_file's document pipeline: a source type and the settings
\* (the defaults of config.py, with the OCR and the caption of images on or off)
DocInit ==
    /\ vsStore = <<>>
    /\ vsLast = [op |-> "new"]
    /\ vsCalls = 0
    /\ disk = NoFile
    /\ IngInit
    /\ chunking \in
          { [pc |-> "parse", source_type |-> t, blocks |-> <<>>, parents |-> <<>>,
             image_chunks |-> <<>>, children |-> <<>>,
             settings |-> [chunking_policy |-> s[1], target_tokens |-> 280,
                           overlap_tokens |-> 60, hard_max_tokens |-> 380,
                           semantic_threshold |-> 72, semantic_enabled_min_tokens |-> 600,
                           enable_ocr |-> s[2], enable_vision_caption |-> s[3]]] :
              t \in {"pdf", "pptx", "docx"},
              s \in ({"structure_fixed"} \X BOOLEAN \X BOOLEAN)
                       \cup { <<"semantic", TRUE, TRUE>>, <<"hybrid", TRUE, TRUE>> } }

\* blocks = parser.parse(file_bytes, filename)
DocParse ==
    /\ chunking.pc = "parse"
    /\ \E bs \in parse(chunking.source_type) :
          chunking' = [chunking EXCEPT !.pc = "parents", !.blocks = bs]
    /\ UNCHANGED <<jobs, vsVars, disk, dbVars, run, nCalls, srch, committed, succeeded>>

\* parents = policy.build_parents(blocks, source_type)
DocBuildParents ==
    /\ chunking.pc = "parents"
    /\ chunking' = [chunking EXCEPT
                       !.pc = "images",
                       !.parents = build_parents(chunking.blocks, chunking.source_type)]
    /\ UNCHANGED <<jobs, vsVars, disk, dbVars, run, nCalls, srch, committed, succeeded>>

\* lines 107-114: the image blocks with the parent found for each, without the
\* images for which none is found, then process_image_blocks
DocImages ==
    /\ chunking.pc = "images"
    /\ LET images == SelectSeq(chunking.blocks, LAMBDA b : b.type = "image")
           found == SelectSeq(images,
                              LAMBDA b : find_parent_for_image(b, chunking.parents) # <<>>)
           image_blocks_with_parent ==
               [i \in 1..Len(found) |->
                   << found[i], find_parent_for_image(found[i], chunking.parents)[1] >>]
       IN  chunking' = [chunking EXCEPT
                           !.pc = "children",
                           !.image_chunks = process_image_blocks(image_blocks_with_parent,
                                                                 chunking.settings)]
    /\ UNCHANGED <<jobs, vsVars, disk, dbVars, run, nCalls, srch, committed, succeeded>>

\* lines 116-121: the children of every parent, then the image chunks
DocChildren ==
    /\ chunking.pc = "children"
    /\ LET policy == _get_chunking_policy(chunking.settings,
                                          chunking.settings.chunking_policy)
           RECURSIVE all_chunks(_)
           all_chunks(n) ==
               IF n = 0 THEN <<>>
               ELSE all_chunks(n - 1) \o build_children(policy, chunking.parents[n])
       IN  chunking' = [chunking EXCEPT
                           !.pc = "done",
                           !.children = all_chunks(Len(chunking.parents))
                                            \o chunking.image_chunks]
    /\ UNCHANGED <<jobs, vsVars, disk, dbVars, run, nCalls, srch, committed, succeeded>>

DocSpec ==
    DocInit /\ [][DocParse \/ DocBuildParents \/ DocImages \/ DocChildren]_vars

(***************************************************************************)
(* Properties of the document pipeline (checked under DocSpec).            *)
(***************************************************************************)
\* the parents are built
ParentsBuilt == chunking.pc \in {"images", "children", "done"}

\* C23: build_parents partitions the blocks by structural key: every parent
\* holds exactly the blocks of one Loc (page number, slide number or heading
\* path) in their original relative order, no two parents hold the same Loc,
\* every block is in a parent, and the ranges [seq_start, seq_end] are
\* consecutive from 0 to n - 1, each as long as the parent's block list
C23_ParentsPartitionBlocks ==
    ParentsBuilt =>
        LET blocks == chunking.blocks
            parents == chunking.parents
        IN  /\ \A i \in 1..Len(parents) :
                  /\ parents[i].blocks # <<>>
                  /\ parents[i].blocks =
                        SelectSeq(blocks, LAMBDA b : b.loc = parents[i].blocks[1].loc)
                  /\ parents[i].seq_start = IF i = 1 THEN 0 ELSE parents[i - 1].seq_end + 1
                  /\ parents[i].seq_end - parents[i].seq_start + 1 = Len(parents[i].blocks)
            /\ \A i, j \in 1..Len(parents) :
                  i # j => parents[i].blocks[1].loc # parents[j].blocks[1].loc
            /\ \A k \in 1..Len(blocks) :
                  \E i \in 1..Len(parents) : blocks[k].loc = parents[i].blocks[1].loc
            /\ parents # <<>> => parents[Len(parents)].seq_end = Len(blocks) - 1
            /\ parents = <<>> <=> blocks = <<>>

\* a docx document whose section B comes before section A, which holds a text
\* and then a table: the sort moves the blocks of A before the block of B
C23_Witness ==
    /\ ParentsBuilt
    /\ chunking.source_type = "docx"
    /\ Len(chunking.blocks) = 3
    /\ chunking.blocks[1].loc.heading_path = << <<"B">> >>
    /\ Len(chunking.parents) = 2
    /\ chunking.parents[1].blocks = << chunking.blocks[2], chunking.blocks[3] >>
    /\ chunking.blocks[2].type = "text" /\ chunking.blocks[3].type = "table"
    /\ chunking.parents[2].seq_start = 2 /\ chunking.parents[2].seq_end = 2

\* C27: the image chunks are those that process_image_blocks makes of the image
\* blocks, each with the id of the first parent whose Loc equals the image's Loc
\* on every field the image sets; an image without such a parent gives no chunk
C27_ImageAnnexMatching ==
    chunking.pc \in {"children", "done"} =>
        LET parents == chunking.parents
            images == SelectSeq(chunking.blocks, LAMBDA b : b.type = "image")
            matching(b) ==
                { i \in 1..Len(parents) :
                    \A f \in {"page_num", "slide_num", "heading_path"} :
                        b.loc[f] # <<>> => parents[i].loc[f] = b.loc[f] }
            matched == SelectSeq(images, LAMBDA b : matching(b) # {})
            first(b) == CHOOSE i \in matching(b) : \A k \in matching(b) : i <= k
        IN  /\ chunking.image_chunks =
                  process_image_blocks(
                      [k \in 1..Len(matched) |->
                          << matched[k], parents[first(matched[k])].parent_id >>],
                      chunking.settings)
            /\ \A k \in 1..Len(chunking.image_chunks) :
                  /\ chunking.image_chunks[k].chunk_type \in {"image_ocr", "image_caption"}
                  /\ Cardinality({ i \in 1..Len(parents) :
                                     parents[i].parent_id
                                         = chunking.image_chunks[k].parent_id }) = 1

\* an image of the second page with text: its OCR chunk and its caption chunk
\* carry the id of the second parent
C27_Witness ==
    /\ chunking.pc = "done"
    /\ Len(chunking.parents) = 2
    /\ Len(chunking.image_chunks) = 2
    /\ chunking.image_chunks[1].chunk_type = "image_ocr"
    /\ chunking.image_chunks[2].chunk_type = "image_caption"
    /\ chunking.image_chunks[1].parent_id = chunking.parents[2].parent_id
    /\ chunking.image_chunks[2].parent_id = chunking.parents[2].parent_id
    /\ chunking.image_chunks[1].loc = chunking.parents[2].loc

\* the children that the configured policy builds of the i-th parent
ChildrenOfParent(i) ==
    build_children(_get_chunking_policy(chunking.settings,
                                        chunking.settings.chunking_policy),
                   chunking.parents[i])

\* C22: every chunk of the run carries the id of exactly one parent of the run:
\* the chunks that build_children makes of a parent carry that parent's id, also
\* those made by StructureFixed of a synthetic parent, and every image chunk
\* carries the id of a parent that build_parents returned
C22_ChildBelongsToOneParent ==
    chunking.pc = "done" =>
        LET parents == chunking.parents
            owners(c) == { i \in 1..Len(parents) : parents[i].parent_id = c.parent_id }
        IN  /\ \A k \in 1..Len(chunking.children) :
                  Cardinality(owners(chunking.children[k])) = 1
            /\ \A i \in 1..Len(parents) :
                  \A k \in 1..Len(ChildrenOfParent(i)) :
                      /\ ChildrenOfParent(i)[k].parent_id = parents[i].parent_id
                      /\ \E n \in 1..Len(chunking.children) :
                            chunking.children[n] = ChildrenOfParent(i)[k]
            /\ \A k \in 1..Len(chunking.image_chunks) :
                  \E n \in 1..Len(chunking.children) :
                      chunking.children[n] = chunking.image_chunks[k]

\* the semantic policy hands a group of two paragraphs of 400 tokens to
\* StructureFixed with a synthetic parent, in a document of two parents with an
\* image chunk
C22_Witness ==
    /\ chunking.pc = "done"
    /\ chunking.settings.chunking_policy = "semantic"
    /\ Len(chunking.parents) = 2
    /\ chunking.image_chunks # <<>>
    /\ \E k \in 1..Len(chunking.children) :
          /\ chunking.children[k].chunk_policy = "structure_fixed"
          /\ chunking.children[k].chunk_type = "text"
          /\ chunking.children[k].parent_id = chunking.parents[2].parent_id

====
